---- MODULE Spec2Model ----
(***************************************************************************)
(* A model of the chatooli backend core: the workspace file store          *)
(* (backend/tools/filesystem.py), the code sandbox                         *)
(* (backend/tools/sandbox.py) and the tool-use loop of the Claude engine   *)
(* (backend/engines/claude_engine.py).                                     *)
(*                                                                         *)
(* Python strings are TLA+ strings. A path argument is the string the code *)
(* is given; a Path object, and a location of the file system, is the      *)
(* sequence of its parts below "/" (<<"ws", "a">> is /ws/a), parsed,       *)
(* joined and resolved the way pathlib does on POSIX.                      *)
(***************************************************************************)
EXTENDS Integers, Sequences, FiniteSets, TLC

VARIABLES
    files,          \* the file system: location -> content, for every regular file
    dirs,           \* the file system: the locations of the directories
    links,          \* the file system: location of a symlink -> the location it names
    last,           \* the last call made: its arguments and its outcome
    ncalls,         \* the number of File Store and sandbox calls made so far
    pc,             \* ClaudeEngine.run: where the invocation stands
    turn,           \* ClaudeEngine.run: the number of model requests sent
    nblk,           \* ClaudeEngine.run: the blocks of resp.content handled this turn
    text,           \* ClaudeEngine.run: text
    files_changed,  \* ClaudeEngine.run: files_changed
    tool_results,   \* ClaudeEngine.run: tool_results of the current turn
    response,       \* ClaudeEngine.run: what the invocation returned or raised
    turn_text,      \* history: the text blocks of the current model turn
    said,           \* history: the last text block of the last finished turn that had one
    wlog,           \* history: the path and the success of each write_file and
                    \* edit_file call dispatched, in order
    conversation,   \* ClaudeEngine.run: history (the caller's list), message,
                    \* messages and assistant_content, where they are followed
    wr,             \* write_file: the write_text in progress, if any
    _engines,       \* registry: _engines, the <<engine id, engine class>> pairs
                    \* in the order of the dict
    _instances,     \* registry: _instances, engine id -> cached instance
    built,          \* history: the constructor calls made by the registry, in order
    sessions,       \* app: sessions, session id -> the messages of the session
    environ,        \* what the process finds: "key" (an API key in os.environ),
                    \* "provider" (the lazily imported provider packages)
    calls,          \* the tool invocations in flight, by the number of the
                    \* thread or request that makes them
    sys             \* sys.stdout and sys.stderr of the process: what each is bound to

fsVars == <<files, dirs, links>>
engVars == <<pc, turn, nblk, text, files_changed, tool_results, response,
             turn_text, said, wlog, conversation>>
restVars == <<wr, _engines, _instances, built, sessions, environ, calls, sys>>
vars == <<files, dirs, links, last, ncalls, pc, turn, nblk, text, files_changed,
          tool_results, response, turn_text, said, wlog, conversation, wr, _engines,
          _instances,
          built, sessions, environ, calls, sys>>

(***************************************************************************)
(* Strings                                                                 *)
(***************************************************************************)
Char(s, i) == SubSeq(s, i, i)

\* str.startswith
StartsWith(s, p) == Len(p) <= Len(s) /\ SubSeq(s, 1, Len(p)) = p

IsPrefix(p, s) == Len(p) <= Len(s) /\ SubSeq(s, 1, Len(p)) = p

(***************************************************************************)
(* Paths (pathlib.PurePosixPath parsing, os.path.realpath)                 *)
(***************************************************************************)
KeepSeg(cur) == IF cur \in {"", "."} THEN <<>> ELSE <<cur>>

RECURSIVE SplitFrom(_, _, _)
SplitFrom(s, i, cur) ==
    IF i > Len(s) THEN KeepSeg(cur)
    ELSE IF Char(s, i) = "/" THEN KeepSeg(cur) \o SplitFrom(s, i + 1, "")
    ELSE SplitFrom(s, i + 1, cur \o Char(s, i))

\* The parts of a path string: empty and "." segments are dropped, ".." is kept.
Split(s) == SplitFrom(s, 1, "")

IsAbs(s) == Len(s) > 0 /\ Char(s, 1) = "/"

RECURSIVE JoinParts(_)
JoinParts(parts) ==
    IF parts = <<>> THEN "" ELSE "/" \o Head(parts) \o JoinParts(Tail(parts))

\* str() of an absolute path with these parts
Join(parts) == IF parts = <<>> THEN "/" ELSE JoinParts(parts)

RECURSIVE JoinRel(_)
JoinRel(parts) ==
    IF parts = <<>> THEN "."
    ELSE IF Len(parts) = 1 THEN Head(parts)
    ELSE Head(parts) \o "/" \o JoinRel(Tail(parts))

ButLast(q) == SubSeq(q, 1, Len(q) - 1)

\* Path.resolve(): walk the parts from the file system root, ".." steps to the
\* parent (the root is its own parent), a symlink is replaced by its target.
RECURSIVE Walk(_, _)
Walk(cur, segs) ==
    IF segs = <<>> THEN cur
    ELSE IF Head(segs) = ".."
        THEN Walk(IF cur = <<>> THEN <<>> ELSE ButLast(cur), Tail(segs))
    ELSE LET nxt == Append(cur, Head(segs)) IN
         IF nxt \in DOMAIN links
            THEN Walk(<<>>, links[nxt] \o Tail(segs))
            ELSE Walk(nxt, Tail(segs))

\* Path(root).resolve(), as parts
RootParts(root) == Walk(<<>>, Split(root))

\* (root / path): an absolute path replaces the root
JoinPath(rootParts, path) ==
    IF IsAbs(path) THEN Split(path) ELSE rootParts \o Split(path)

\* (root / path).resolve(): the real location of root / path
Locate(path, root) == Walk(<<>>, JoinPath(RootParts(root), path))

\* Whether the location lies in the directory tree of the resolved root
Inside(loc, root) == IsPrefix(RootParts(root), loc)

(***************************************************************************)
(* Outcomes of a call: a returned value, or a raised exception             *)
(***************************************************************************)
Ret(v) == [ok |-> TRUE, val |-> v, exc |-> "none"]
Raise(e, msg) == [ok |-> FALSE, val |-> msg, exc |-> e]

(***************************************************************************)
(* filesystem._resolve                                                     *)
(***************************************************************************)
_resolve(path, root) ==
    LET rootStr == Join(RootParts(root))
        full == Locate(path, root)
    IN  IF ~StartsWith(Join(full), rootStr)
            THEN Raise("PermissionError", "Path escapes workspace: " \o path)
            ELSE Ret(full)

(***************************************************************************)
(* Text helpers of the File Store                                          *)
(***************************************************************************)
Digits == "0123456789"

RECURSIVE IntStr(_)
\* str(n) for n >= 0
IntStr(n) ==
    IF n < 10 THEN Char(Digits, n + 1)
    ELSE IntStr(n \div 10) \o Char(Digits, (n % 10) + 1)

RECURSIVE PadLeft(_, _)
\* right-align in a field of the given width (format spec "4d")
PadLeft(s, width) == IF Len(s) >= width THEN s ELSE PadLeft(" " \o s, width)

RECURSIVE LinesFrom(_, _, _)
LinesFrom(s, i, cur) ==
    IF i > Len(s) THEN (IF cur = "" THEN <<>> ELSE <<cur>>)
    ELSE IF Char(s, i) = "\n" THEN <<cur>> \o LinesFrom(s, i + 1, "")
    ELSE LinesFrom(s, i + 1, cur \o Char(s, i))

\* str.splitlines(): no empty last line after a final newline
SplitLines(s) == LinesFrom(s, 1, "")

RECURSIVE JoinLines(_)
\* "\n".join(lines)
JoinLines(lines) ==
    IF lines = <<>> THEN ""
    ELSE IF Len(lines) = 1 THEN Head(lines)
    ELSE Head(lines) \o "\n" \o JoinLines(Tail(lines))

RECURSIVE FindFrom(_, _, _)
\* the least index >= i at which old occurs in s, 0 when there is none
FindFrom(s, old, i) ==
    IF i + Len(old) - 1 > Len(s) THEN 0
    ELSE IF SubSeq(s, i, i + Len(old) - 1) = old THEN i
    ELSE FindFrom(s, old, i + 1)

\* what edit_file does not do: take every old_string to occur
M_AlwaysContains(s, old) == TRUE

\* old in s
Contains(s, old) == FindFrom(s, old, 1) # 0

RECURSIVE ReplaceAll(_, _, _)
\* what edit_file does not do: str.replace(old, new) without a count, for a
\* non-empty old
ReplaceAll(s, old, new) ==
    LET i == FindFrom(s, old, 1) IN
    IF i = 0 \/ old = "" THEN s
    ELSE SubSeq(s, 1, i - 1) \o new
         \o ReplaceAll(SubSeq(s, i + Len(old), Len(s)), old, new)

\* str.replace(old, new, 1)
ReplaceFirst(s, old, new) ==
    LET i == FindFrom(s, old, 1) IN
    IF i = 0 THEN s
    ELSE SubSeq(s, 1, i - 1) \o new \o SubSeq(s, i + Len(old), Len(s))

(***************************************************************************)
(* The File Store operations. Each yields its outcome, the file system it  *)
(* leaves, and the locations whose content it read, wrote or reported.     *)
(***************************************************************************)
IsFile(loc) == loc \in DOMAIN files
IsDir(loc) == loc \in dirs
Exists(loc) == IsFile(loc) \/ IsDir(loc)

Parent(loc) == ButLast(loc)

\* loc's ancestors, the file system root included
Ancestors(loc) == {SubSeq(loc, 1, n) : n \in 0..(Len(loc) - 1)}

FsResult(out, f, d, touched) ==
    [out |-> out, files |-> f, dirs |-> d, touched |-> touched]

SetFile(loc, content) ==
    [p \in DOMAIN files \cup {loc} |-> IF p = loc THEN content ELSE files[p]]

\* what read_file does not do: number the lines from 0
M_ZeroBased(i, line) == PadLeft(IntStr(i - 1), 4) \o " | " \o line

NumberedLine(i, line) == PadLeft(IntStr(i), 4) \o " | " \o line

\* what read_file does not do: read a missing file or a directory as an
\* empty file
M_ReadsMissingAsEmpty(path, root) ==
    LET p == _resolve(path, root) IN
    IF ~p.ok THEN FsResult(p, files, dirs, {})
    ELSE FsResult(Ret("--- " \o path \o " ---\n"
                      \o (IF IsFile(p.val) THEN files[p.val] ELSE "")),
                  files, dirs, {p.val})

read_file(path, root) ==
    LET p == _resolve(path, root) IN
    IF ~p.ok THEN FsResult(p, files, dirs, {})
    ELSE IF ~IsFile(p.val)
        THEN FsResult(Raise("FileNotFoundError", "File not found: " \o path),
                      files, dirs, {})
    ELSE LET lines == SplitLines(files[p.val])
             numbered == JoinLines([i \in 1..Len(lines) |-> NumberedLine(i, lines[i])])
         IN  FsResult(Ret("--- " \o path \o " ---\n" \o numbered),
                      files, dirs, {p.val})

write_file(path, content, root) ==
    LET p == _resolve(path, root) IN
    IF ~p.ok THEN FsResult(p, files, dirs, {})
    \* p.parent.mkdir(parents=True, exist_ok=True) over a regular file
    ELSE IF IsFile(Parent(p.val))
        THEN FsResult(Raise("FileExistsError",
                            "[Errno 17] File exists: '" \o Join(Parent(p.val)) \o "'"),
                      files, dirs, {})
    ELSE IF \E a \in Ancestors(p.val) : IsFile(a)
        THEN FsResult(Raise("NotADirectoryError",
                            "[Errno 20] Not a directory: '" \o Join(Parent(p.val)) \o "'"),
                      files, dirs, {})
    ELSE LET made == Ancestors(p.val) \ dirs IN
         IF IsDir(p.val)
            THEN FsResult(Raise("IsADirectoryError",
                                "[Errno 21] Is a directory: '" \o Join(p.val) \o "'"),
                          files, dirs \cup made, made)
            ELSE FsResult(Ret("Wrote " \o path \o " (" \o IntStr(Len(content))
                              \o " bytes)"),
                          SetFile(p.val, content), dirs \cup made,
                          made \cup {p.val})

edit_file(path, old_string, new_string, root) ==
    LET p == _resolve(path, root) IN
    IF ~p.ok THEN FsResult(p, files, dirs, {})
    ELSE IF ~IsFile(p.val)
        THEN FsResult(Raise("FileNotFoundError", "File not found: " \o path),
                      files, dirs, {})
    ELSE IF ~Contains(files[p.val], old_string)
        THEN FsResult(Raise("ValueError", "old_string not found in " \o path),
                      files, dirs, {p.val})
    ELSE FsResult(Ret("Edited " \o path \o ": 1 replacement"),
                  SetFile(p.val, ReplaceFirst(files[p.val], old_string, new_string)),
                  dirs, {p.val})

(***************************************************************************)
(* Ordering of strings and paths (code point order, as Python compares)    *)
(***************************************************************************)
\* the printable ASCII characters the model uses, in code point order
Ascii == " !#$%&()*+,-./0123456789:;<=>?@ABCDEFGHIJKLMNOPQRSTUVWXYZ[]^_abcdefghijklmnopqrstuvwxyz{|}~"
UpperCase == "ABCDEFGHIJKLMNOPQRSTUVWXYZ"
LowerCase == "abcdefghijklmnopqrstuvwxyz"

RECURSIVE IndexIn(_, _, _)
IndexIn(alphabet, c, i) ==
    IF i > Len(alphabet) THEN 0
    ELSE IF Char(alphabet, i) = c THEN i
    ELSE IndexIn(alphabet, c, i + 1)

Code(c) == IndexIn(Ascii, c, 1)

RECURSIVE StrLess(_, _)
StrLess(a, b) ==
    IF b = "" THEN FALSE
    ELSE IF a = "" THEN TRUE
    ELSE IF Char(a, 1) = Char(b, 1) THEN StrLess(Tail(a), Tail(b))
    ELSE Code(Char(a, 1)) < Code(Char(b, 1))

RECURSIVE PartsLess(_, _)
\* the order of two paths: by their parts, each part by code points
PartsLess(p, q) ==
    IF q = <<>> THEN FALSE
    ELSE IF p = <<>> THEN TRUE
    ELSE IF Head(p) = Head(q) THEN PartsLess(Tail(p), Tail(q))
    ELSE StrLess(Head(p), Head(q))

RECURSIVE SortPaths(_)
\* sorted(paths)
SortPaths(S) ==
    IF S = {} THEN <<>>
    ELSE LET m == CHOOSE a \in S : \A b \in S : ~PartsLess(b, a)
         IN  <<m>> \o SortPaths(S \ {m})

RECURSIVE Lower(_)
\* str.lower()
Lower(s) ==
    IF s = "" THEN ""
    ELSE LET i == IndexIn(UpperCase, Char(s, 1), 1)
         IN  (IF i = 0 THEN Char(s, 1) ELSE Char(LowerCase, i)) \o Lower(Tail(s))

RECURSIVE LStrip(_)
LStrip(s) == IF s # "" /\ Char(s, 1) \in {" ", "\t"} THEN LStrip(Tail(s)) ELSE s

RECURSIVE RStrip(_)
RStrip(s) ==
    IF s # "" /\ Char(s, Len(s)) \in {" ", "\t"} THEN RStrip(SubSeq(s, 1, Len(s) - 1)) ELSE s

\* str.strip()
Strip(s) == RStrip(LStrip(s))

(***************************************************************************)
(* Directory entries                                                       *)
(***************************************************************************)
AllEntries == DOMAIN files \cup dirs \cup DOMAIN links

\* the names in the directory at real location d
ChildNames(d) ==
    {q[Len(q)] : q \in {e \in AllEntries : e # <<>> /\ Parent(e) = d}}

\* the real location of a path given by its parts
RealLoc(parts) == Walk(<<>>, parts)

\* the real location of entry name in the directory at real location d
ChildLoc(d, name) == RealLoc(Append(d, name))

(***************************************************************************)
(* list_files                                                              *)
(***************************************************************************)
\* what the sort key does not do: put the regular files first
M_FilesFirst(d, a, b) ==
    LET fa == IsFile(ChildLoc(d, a))
        fb == IsFile(ChildLoc(d, b))
    IN  IF fa # fb THEN fa ELSE StrLess(Lower(a), Lower(b))

\* sorted(..., key=lambda x: (x.is_file(), x.name.lower())): False sorts before True
EntryKeyLess(d, a, b) ==
    LET fa == IsFile(ChildLoc(d, a))
        fb == IsFile(ChildLoc(d, b))
    IN  IF fa # fb THEN ~fa ELSE StrLess(Lower(a), Lower(b))

RECURSIVE SortEntries(_, _)
SortEntries(d, S) ==
    IF S = {} THEN <<>>
    ELSE LET m == CHOOSE a \in S : \A b \in S : ~EntryKeyLess(d, b, a)
         IN  <<m>> \o SortEntries(d, S \ {m})

EntryName(d, name) == name \o (IF IsDir(ChildLoc(d, name)) THEN "/" ELSE "")

\* The tree markers, written in ASCII for the box-drawing characters of the code
BranchMid == "|-- "
BranchLast == "+-- "
ExtMid == "|   "
ExtLast == "    "

RECURSIVE _walk(_, _)
RECURSIVE WalkEntries(_, _, _, _)
WalkEntries(d, entries, i, prefix) ==
    IF i > Len(entries) THEN [lines |-> <<>>, seen |-> {}]
    ELSE LET is_last == i = Len(entries)
             e == ChildLoc(d, entries[i])
             line == prefix \o (IF is_last THEN BranchLast ELSE BranchMid)
                     \o EntryName(d, entries[i])
             below == IF IsDir(e)
                        THEN _walk(e, prefix \o (IF is_last THEN ExtLast ELSE ExtMid))
                        ELSE [lines |-> <<>>, seen |-> {}]
             rest == WalkEntries(d, entries, i + 1, prefix)
         IN  [lines |-> <<line>> \o below.lines \o rest.lines,
              seen |-> {Append(d, entries[i])} \cup below.seen \cup rest.seen]

\* the recursive listing of the directory at real location d
_walk(d, prefix) == WalkEntries(d, SortEntries(d, ChildNames(d)), 1, prefix)

list_files(path, root, recursive) ==
    LET p == _resolve(path, root) IN
    IF ~p.ok THEN FsResult(p, files, dirs, {})
    ELSE IF ~Exists(p.val)
        THEN FsResult(Raise("FileNotFoundError", "Path not found: " \o path),
                      files, dirs, {})
    ELSE IF ~IsDir(p.val)
        THEN FsResult(Ret(path \o " (file)"), files, dirs, {p.val})
    ELSE LET entries == SortEntries(p.val, ChildNames(p.val))
             tree == IF recursive THEN _walk(p.val, "")
                     ELSE [lines |-> [i \in 1..Len(entries) |->
                                        BranchMid \o EntryName(p.val, entries[i])],
                           seen |-> {Append(p.val, n) : n \in ChildNames(p.val)}]
         IN  FsResult(Ret(JoinLines(<<path \o "/">> \o tree.lines)),
                      files, dirs, tree.seen)

(***************************************************************************)
(* Path.glob (pathlib's selectors)                                         *)
(***************************************************************************)
RECURSIVE Fnmatch(_, _)
\* fnmatch of a name against a pattern part made of literal characters and "*"
Fnmatch(name, pat) ==
    IF pat = "" THEN name = ""
    ELSE IF Char(pat, 1) = "*"
        THEN Fnmatch(name, Tail(pat)) \/ (name # "" /\ Fnmatch(Tail(name), pat))
    ELSE name # "" /\ Char(name, 1) = Char(pat, 1) /\ Fnmatch(Tail(name), Tail(pat))

IsWildcard(part) == Contains(part, "*")

RECURSIVE RecDirs(_)
\* _iterate_directories: the directory and every directory below it, symlinks
\* not followed (parts of the lexical paths, from the file system root)
RecDirs(parts) ==
    {parts} \cup UNION {RecDirs(Append(parts, n)) :
                          n \in {c \in ChildNames(RealLoc(parts)) :
                                   /\ IsDir(RealLoc(Append(parts, c)))
                                   /\ Append(RealLoc(parts), c) \notin DOMAIN links}}

RECURSIVE Select(_, _)
\* the paths (as parts, ".." kept) the selectors of the pattern parts yield
\* from the directory cur
Select(cur, pparts) ==
    IF pparts = <<>> THEN {cur}
    ELSE LET h == Head(pparts)
             rest == Tail(pparts)
             dironly == rest # <<>>
             usable(q) == IF dironly THEN IsDir(RealLoc(q)) ELSE Exists(RealLoc(q))
         IN  IF h = "**"
                THEN UNION {Select(d, rest) : d \in RecDirs(cur)}
             ELSE IF IsWildcard(h)
                THEN UNION {Select(Append(cur, n), rest) :
                              n \in {c \in ChildNames(RealLoc(cur)) :
                                       usable(Append(cur, c)) /\ Fnmatch(c, h)}}
             ELSE IF usable(Append(cur, h)) THEN Select(Append(cur, h), rest)
             ELSE {}

\* Path(root).resolve().glob(pattern): an outcome whose value is the set of
\* matches, each the parts after the root's
PathGlob(rootParts, pattern) ==
    IF pattern = "" THEN Raise("ValueError", "Unacceptable pattern: ''")
    ELSE IF IsAbs(pattern)
        THEN Raise("NotImplementedError", "Non-relative patterns are unsupported")
    ELSE IF \E i \in 1..Len(Split(pattern)) :
                Split(pattern)[i] # "**" /\ Contains(Split(pattern)[i], "**")
        THEN Raise("ValueError",
                   "Invalid pattern: '**' can only be an entire path component")
    ELSE Ret({SubSeq(m, Len(rootParts) + 1, Len(m)) :
                m \in Select(rootParts, Split(pattern))})

(***************************************************************************)
(* glob_files                                                              *)
(***************************************************************************)
NoMatches == "(no matches)"

glob_files(pattern, root) ==
    LET root_p == RootParts(root)
        g == PathGlob(root_p, pattern)
    IN  IF ~g.ok THEN FsResult(g, files, dirs, {})
        ELSE LET matches == SortPaths(g.val)
                 rel == SelectSeq(matches, LAMBDA m : IsFile(RealLoc(root_p \o m)))
             IN  FsResult(Ret(IF rel = <<>> THEN NoMatches
                              ELSE JoinLines([i \in 1..Len(rel) |-> JoinRel(rel[i])])),
                          files, dirs,
                          {RealLoc(root_p \o rel[i]) : i \in 1..Len(rel)})

(***************************************************************************)
(* grep_files                                                              *)
(***************************************************************************)
\* The regular expressions of the model are literal strings (no
\* metacharacter), which re.search finds as substrings, and these malformed
\* ones, which re.compile rejects.
MalformedRegexes == {"(", "[", "*"}
\* what re.compile does not do: accept every pattern
M_CompilesAnything(pattern) == TRUE

re_compile_ok(pattern) == pattern \notin MalformedRegexes
re_search(pattern, line) == Contains(line, pattern)

RECURSIVE GrepLines(_, _, _, _, _, _)
\* the loop over the lines of one file; full says max_matches was reached
GrepLines(rel, lines, i, pattern, results, max_matches) ==
    IF i > Len(lines) THEN [results |-> results, full |-> FALSE]
    ELSE IF re_search(pattern, lines[i])
        THEN LET r == Append(results, rel \o ":" \o IntStr(i) \o ": " \o Strip(lines[i]))
             IN  IF Len(r) >= max_matches THEN [results |-> r, full |-> TRUE]
                 ELSE GrepLines(rel, lines, i + 1, pattern, r, max_matches)
    ELSE GrepLines(rel, lines, i + 1, pattern, results, max_matches)

RECURSIVE GrepLoop(_, _, _, _, _, _, _)
\* the loop over the sorted matches of the glob
GrepLoop(root_p, fs, k, pattern, results, max_matches, read) ==
    IF k > Len(fs) THEN [results |-> results, read |-> read]
    ELSE LET loc == RealLoc(root_p \o fs[k]) IN
         IF ~IsFile(loc)
            THEN GrepLoop(root_p, fs, k + 1, pattern, results, max_matches, read)
         ELSE LET g == GrepLines(JoinRel(fs[k]), SplitLines(files[loc]), 1,
                                 pattern, results, max_matches)
              IN  IF g.full THEN [results |-> g.results, read |-> read \cup {loc}]
                  ELSE GrepLoop(root_p, fs, k + 1, pattern, g.results, max_matches,
                                read \cup {loc})

DefaultMaxMatches == 100

grep_files(pattern, root, glob_pattern, max_matches) ==
    LET root_p == RootParts(root) IN
    IF ~re_compile_ok(pattern)
        THEN FsResult(Raise("ValueError", "Invalid regex: " \o pattern), files, dirs, {})
    ELSE LET g == PathGlob(root_p, glob_pattern) IN
         IF ~g.ok THEN FsResult(g, files, dirs, {})
         ELSE LET r == GrepLoop(root_p, SortPaths(g.val), 1, pattern, <<>>,
                                max_matches, {})
              IN  FsResult(Ret(IF r.results = <<>> THEN NoMatches
                               ELSE JoinLines(r.results)),
                           files, dirs, r.read)

(***************************************************************************)
(* Sandbox (backend/tools/sandbox.py)                                      *)
(*                                                                         *)
(* exec(code, safe_globals) does whatever the program text says. A program *)
(* is represented by what running it does: what it writes to stdout and to *)
(* stderr before it ends, and how it ends: "return" when it runs to its    *)
(* end, the class of the exception it raises otherwise, "os._exit" when it *)
(* ends the process it runs in (exec runs it in the caller's process, with *)
(* the full builtins).                                                     *)
(***************************************************************************)
\* the exception classes that derive from BaseException but not from Exception
BaseOnly == {"SystemExit", "KeyboardInterrupt", "GeneratorExit"}

\* what "except Exception" catches
IsException(e) == e \notin BaseOnly \cup {"os._exit", "none"}

\* the message of the exception a program ends with
ExcMessage(e) ==
    CASE e = "ZeroDivisionError" -> "division by zero"
      [] e = "NameError" -> "name 'x' is not defined"
      [] OTHER -> ""

\* traceback.format_exc(): the header, the frame of the exec call (the module
\* is taken to be installed under /app), the frame of the program, the exception
format_exc(e) ==
    "Traceback (most recent call last):\n"
        \o "  File \"/app/backend/tools/sandbox.py\", line 22, in execute_python_code\n"
        \o "    exec(code, safe_globals)\n"
        \o "  File \"<string>\", line 1, in <module>\n"
        \o e \o (IF ExcMessage(e) = "" THEN "" ELSE ": " \o ExcMessage(e)) \o "\n"

\* the process that called is gone
HostExit == [ok |-> FALSE, val |-> "", exc |-> "os._exit"]

\* what execute_python_code does not do: put stderr before stdout, and leave
\* out what was printed before an error
M_StderrFirst(code) ==
    LET out == code.stdout
        err == code.stderr
    IN  IF code.ends = "return"
            THEN LET parts == (IF err # "" THEN <<"Stderr:\n" \o err>> ELSE <<>>)
                                \o (IF out # "" THEN <<"Output:\n" \o out>> ELSE <<>>)
                 IN  Ret(IF parts # <<>> THEN JoinLines(parts)
                         ELSE "Code executed successfully (no output).")
        ELSE IF IsException(code.ends)
            THEN Ret("Error:\n" \o format_exc(code.ends))
        ELSE IF code.ends = "os._exit" THEN HostExit
        ELSE Raise(code.ends, ExcMessage(code.ends))

execute_python_code(code) ==
    LET out == code.stdout
        err == code.stderr
    IN  IF code.ends = "return"
            THEN LET parts == (IF out # "" THEN <<"Output:\n" \o out>> ELSE <<>>)
                                \o (IF err # "" THEN <<"Stderr:\n" \o err>> ELSE <<>>)
                 IN  Ret(IF parts # <<>> THEN JoinLines(parts)
                         ELSE "Code executed successfully (no output).")
        ELSE IF IsException(code.ends)
            THEN Ret((IF out # "" THEN "Output before error:\n" \o out \o "\n" ELSE "")
                        \o "Error:\n" \o format_exc(code.ends))
        ELSE IF code.ends = "os._exit" THEN HostExit
        ELSE Raise(code.ends, ExcMessage(code.ends))

(***************************************************************************)
(* Code blocks (backend/utils.py)                                          *)
(***************************************************************************)
\* the fence of a markdown code block: three grave accents in the source,
\* written here with a character a TLA+ string can hold
Fence == "~~~"
FenceChar == "~"

RECURSIVE SplitFromNl(_, _, _)
SplitFromNl(s, i, cur) ==
    IF i > Len(s) THEN <<cur>>
    ELSE IF Char(s, i) = "\n" THEN <<cur>> \o SplitFromNl(s, i + 1, "")
    ELSE SplitFromNl(s, i + 1, cur \o Char(s, i))

\* str.split("\n")
SplitNl(s) == SplitFromNl(s, 1, "")

RECURSIVE LStripChar(_, _)
\* str.lstrip(c) for a single character c
LStripChar(s, c) == IF s # "" /\ Char(s, 1) = c THEN LStripChar(Tail(s), c) ELSE s

\* what the loop does not do: strip the lines it collects
M_StripsLines(st, line) ==
    IF StartsWith(Strip(line), Fence)
        THEN IF st.in_code
                THEN [st EXCEPT !.blocks = Append(st.blocks,
                                                  [language |-> st.lang,
                                                   code |-> JoinLines(st.current_code)]),
                                !.current_code = <<>>,
                                !.in_code = FALSE]
                ELSE [st EXCEPT !.in_code = TRUE,
                                !.lang = IF Strip(LStripChar(Strip(line), FenceChar)) # ""
                                            THEN Strip(LStripChar(Strip(line), FenceChar))
                                            ELSE "python"]
    ELSE IF st.in_code
        THEN [st EXCEPT !.current_code = Append(st.current_code, Strip(line))]
    ELSE st

\* the body of the loop: the locals after one more line
ExtractLine(st, line) ==
    IF StartsWith(Strip(line), Fence)
        THEN IF st.in_code
                THEN [st EXCEPT !.blocks = Append(st.blocks,
                                                  [language |-> st.lang,
                                                   code |-> JoinLines(st.current_code)]),
                                !.current_code = <<>>,
                                !.in_code = FALSE]
                ELSE LET lang_hint == Strip(LStripChar(Strip(line), FenceChar))
                     IN  [st EXCEPT !.in_code = TRUE,
                                    !.lang = IF lang_hint # "" THEN lang_hint ELSE "python"]
    ELSE IF st.in_code
        THEN [st EXCEPT !.current_code = Append(st.current_code, line)]
    ELSE st

RECURSIVE M_DropsOpenBlock(_, _, _)
\* what extract_code_blocks does not do: drop the lines of an open block
M_DropsOpenBlock(lines, i, st) ==
    IF i > Len(lines) THEN st.blocks
    ELSE M_DropsOpenBlock(lines, i + 1, ExtractLine(st, lines[i]))

RECURSIVE ExtractFrom(_, _, _)
\* the loop over the lines, from line i on, and what follows it
ExtractFrom(lines, i, st) ==
    IF i > Len(lines)
        THEN IF st.current_code # <<>>
                THEN Append(st.blocks, [language |-> st.lang,
                                        code |-> JoinLines(st.current_code)])
                ELSE st.blocks
    ELSE ExtractFrom(lines, i + 1, ExtractLine(st, lines[i]))

extract_code_blocks(t) ==
    ExtractFrom(SplitNl(t), 1,
                [blocks |-> <<>>, in_code |-> FALSE, current_code |-> <<>>,
                 lang |-> "python"])

(***************************************************************************)
(* Tool dispatch (backend/engines/claude_engine.py)                        *)
(*                                                                         *)
(* args is the dict of a tool_use block: a function from its keys.         *)
(***************************************************************************)
ToolNames == {"read_file", "write_file", "edit_file", "list_files", "glob_files",
              "grep_files", "execute_python_code"}

\* args[key] of a key the dict lacks; str(KeyError(key)) is the quoted key
KeyError(key) == Raise("KeyError", "'" \o key \o "'")

\* the first of the keys, in the order the call evaluates them, args lacks
RECURSIVE MissingKey(_, _)
MissingKey(args, keys) ==
    IF keys = <<>> THEN ""
    ELSE IF Head(keys) \notin DOMAIN args THEN Head(keys)
    ELSE MissingKey(args, Tail(keys))

\* args.get(key, default)
Get(args, key, default) == IF key \in DOMAIN args THEN args[key] ELSE default

NoEffect(out) == FsResult(out, files, dirs, {})

\* the keys each tool subscripts
Subscripted(name) ==
    CASE name = "read_file" -> <<"path">>
      [] name = "write_file" -> <<"path", "content">>
      [] name = "edit_file" -> <<"path", "old_string", "new_string">>
      [] name = "glob_files" -> <<"pattern">>
      [] name = "grep_files" -> <<"pattern">>
      [] name = "execute_python_code" -> <<"code">>
      [] OTHER -> <<>>

\* what _run_tool does not do: an error for a name that is not a tool's
M_FallthroughRaises(name) == NoEffect(Raise("ValueError", "Unknown tool: " \o name))

\* return "Unknown tool", reached when no branch of the try statement returned
Fallthrough(name) == NoEffect(Ret("Unknown tool"))

\* The body of the try statement: the call the name selects, with what it
\* returns or raises; no branch is taken for a name that is not a tool's.
TryBody(name, args, root) ==
    IF MissingKey(args, Subscripted(name)) # ""
        THEN NoEffect(KeyError(MissingKey(args, Subscripted(name))))
    ELSE IF name = "read_file" THEN read_file(args["path"], root)
    ELSE IF name = "write_file" THEN write_file(args["path"], args["content"], root)
    ELSE IF name = "edit_file"
        THEN edit_file(args["path"], args["old_string"], args["new_string"], root)
    ELSE IF name = "list_files"
        THEN list_files(Get(args, "path", "."), root, Get(args, "recursive", FALSE))
    ELSE IF name = "glob_files" THEN glob_files(args["pattern"], root)
    ELSE IF name = "grep_files"
        THEN grep_files(args["pattern"], root, Get(args, "glob_pattern", "**/*"),
                        DefaultMaxMatches)
    ELSE IF name = "execute_python_code" THEN NoEffect(execute_python_code(args["code"]))
    ELSE Fallthrough(name)

\* what _run_tool does not do: leave the path out
M_NotRecorded(changed, path) == changed

\* what _run_tool does not do: list a path once however often it is written
M_RecordedOnce(changed, path) ==
    IF \E i \in DOMAIN changed : changed[i] = path THEN changed ELSE Append(changed, path)

\* files_changed.append(args["path"])
Recorded(changed, path) == Append(changed, path)

\* except Exception as e: return f"Error: {e}"
Caught(out) ==
    IF out.ok THEN out
    ELSE IF IsException(out.exc) THEN Ret("Error: " \o out.val)
    ELSE out

\* what _run_tool makes of the outcome r of the try body
AfterTry(name, args, changed, r) ==
    [out |-> Caught(r.out),
     files |-> r.files,
     dirs |-> r.dirs,
     touched |-> r.touched,
     raw |-> r.out,
     files_changed |-> IF name \in {"write_file", "edit_file"} /\ r.out.ok
                          THEN Recorded(changed, args["path"])
                          ELSE changed]

\* what _run_tool does not do: answer without touching the file system
M_DryRun(name, args, root, changed) ==
    [AfterTry(name, args, changed, TryBody(name, args, root))
        EXCEPT !.files = files, !.dirs = dirs]

\* _run_tool: the outcome (the string returned, or what escapes), the file
\* system and files_changed as the call leaves them
_run_tool(name, args, root, changed) ==
    AfterTry(name, args, changed, TryBody(name, args, root))

(***************************************************************************)
(* The file systems and the arguments the model draws from                 *)
(***************************************************************************)
Root == "/ws"

\* "/ws2" is a sibling of the workspace whose name extends the root's name;
\* "/etc" is an unrelated directory.
BaseDirs == {<<>>, <<"ws">>, <<"ws", "d">>, <<"ws2">>, <<"etc">>}
BaseFiles == [p \in {<<"ws", "a">>, <<"ws2", "s">>, <<"etc", "p">>} |-> "x"]

NoLinks == [p \in {} |-> <<>>]
LinkTo(target) == [p \in {<<"ws", "l">>} |-> target]
LinkConfigs == {NoLinks, LinkTo(<<"etc">>), LinkTo(<<"ws2">>), LinkTo(<<"ws", "d">>)}

\* the segments of a path given to _resolve
MaxSegs == 3

\* the File Store and sandbox calls of one behaviour
MaxCalls == 2

ResolveSegs == {"..", ".", "a", "d", "l", "ws2", "etc"}

RECURSIVE RelPaths(_)
RelPaths(n) ==
    IF n = 0 THEN {""}
    ELSE RelPaths(n - 1)
         \cup {s : s \in ResolveSegs}
         \cup {p \o "/" \o s : p \in RelPaths(n - 1) \ {""}, s \in ResolveSegs}

ResolvePaths == RelPaths(MaxSegs) \cup {"/" \o p : p \in RelPaths(MaxSegs - 1)}

ResolveRoots == {"/ws", "/ws/d", "/ws/l"}

NoCall == [op |-> "none"]

NoResponse == [kind |-> "none"]

NoWrite == [stage |-> "none"]

\* no write_text is in progress, and the registry is not in use
\* sys.stdout and sys.stderr as the process starts: the streams of the process
\* itself, written as those of a call 0
StdStreams == [stdout |-> [call |-> 0, stream |-> "stdout"],
               stderr |-> [call |-> 0, stream |-> "stderr"]]

RestIdle ==
    /\ wr = NoWrite
    /\ _engines = <<>>
    /\ _instances = <<>>
    /\ built = <<>>
    /\ sessions = <<>>
    /\ environ = {"key", "provider"}
    /\ calls = <<>>
    /\ sys = StdStreams

\* the message list of run is left out: the runs of 20 turns stay finite
NotFollowed ==
    [followed |-> FALSE, history |-> <<>>, message |-> "", messages |-> <<>>,
     assistant_content |-> <<>>]

\* no invocation of ClaudeEngine.run is in progress
EngineOff ==
    /\ pc = "off"
    /\ turn = 0
    /\ nblk = 0
    /\ text = ""
    /\ files_changed = <<>>
    /\ tool_results = <<>>
    /\ response = NoResponse
    /\ turn_text = <<>>
    /\ said = ""
    /\ wlog = <<>>
    /\ conversation = NotFollowed

(***************************************************************************)
(* SpecResolve: _resolve applied to every path and root of the bounded     *)
(* sets, in each file system                                               *)
(***************************************************************************)
InitResolve ==
    /\ files = BaseFiles
    /\ dirs = BaseDirs
    /\ links \in LinkConfigs
    /\ last = NoCall
    /\ ncalls = 0
    /\ EngineOff
    /\ RestIdle

CallResolve(path, root) ==
    /\ last = NoCall
    /\ last' = [op |-> "_resolve", path |-> path, root |-> root,
                out |-> _resolve(path, root)]
    /\ UNCHANGED <<fsVars, ncalls, engVars, restVars>>

NextResolve == \E path \in ResolvePaths, root \in ResolveRoots : CallResolve(path, root)

SpecResolve == InitResolve /\ [][NextResolve]_vars

(***************************************************************************)
(* SpecFS: the File Store operations called in any order on the workspace  *)
(* /ws, with arguments from the bounded sets                               *)
(***************************************************************************)
FsLinkConfigs == {LinkTo(<<"etc">>)}
FsFiles ==
    [p \in DOMAIN BaseFiles \cup {<<"ws", "B">>, <<"ws", "d", "e">>} |->
        IF p = <<"ws", "a">> THEN "x\n y x" ELSE "x"]
FsPaths == {"a", ".", "a/c", "../etc/p", "../ws2/s", "l/p", "d/N/c"}
FsContents == {"", "p\n\n q"}
FsOlds == {"x", "q"}
FsNews == {"z"}
FsPatterns == {"*", "**/*", "../ws2/*", "/etc/*", "l/*", ""}
FsRegexes == {"x", "q", "("}
FsMaxMatches == {0, 2}

InitFS ==
    /\ files = FsFiles
    /\ dirs = BaseDirs
    /\ links \in FsLinkConfigs
    /\ last = NoCall
    /\ ncalls = 0
    /\ EngineOff
    /\ RestIdle

\* One call of a File Store operation: the file system becomes what the
\* operation leaves, and the call is recorded.
Called(op, args, r) ==
    /\ ncalls < MaxCalls
    /\ ncalls' = ncalls + 1
    /\ files' = r.files
    /\ dirs' = r.dirs
    /\ UNCHANGED <<links, engVars, restVars>>
    /\ last' = [op |-> op, args |-> args, root |-> Root, out |-> r.out,
                touched |-> r.touched]

CallReadFile(path) ==
    Called("read_file", [path |-> path], read_file(path, Root))

CallWriteFile(path, content) ==
    Called("write_file", [path |-> path, content |-> content],
           write_file(path, content, Root))

CallEditFile(path, old_string, new_string) ==
    Called("edit_file",
           [path |-> path, old_string |-> old_string, new_string |-> new_string],
           edit_file(path, old_string, new_string, Root))

CallListFiles(path, recursive) ==
    Called("list_files", [path |-> path, recursive |-> recursive],
           list_files(path, Root, recursive))

CallGlobFiles(pattern) ==
    Called("glob_files", [pattern |-> pattern], glob_files(pattern, Root))

CallGrepFiles(pattern, glob_pattern, max_matches) ==
    Called("grep_files",
           [pattern |-> pattern, glob_pattern |-> glob_pattern,
            max_matches |-> max_matches],
           grep_files(pattern, Root, glob_pattern, max_matches))

NextFS ==
    \/ \E path \in FsPaths : CallReadFile(path)
    \/ \E path \in FsPaths, content \in FsContents : CallWriteFile(path, content)
    \/ \E path \in FsPaths, old \in FsOlds, new \in FsNews : CallEditFile(path, old, new)
    \/ \E path \in FsPaths, recursive \in BOOLEAN : CallListFiles(path, recursive)
    \/ \E pattern \in FsPatterns : CallGlobFiles(pattern)
    \/ \E pattern \in FsRegexes, glob_pattern \in FsPatterns, m \in FsMaxMatches :
          CallGrepFiles(pattern, glob_pattern, m)

SpecFS == InitFS /\ [][NextFS]_vars

(***************************************************************************)
(* SpecSandbox: execute_python_code called on programs of every behaviour  *)
(* of the bounded sets                                                     *)
(***************************************************************************)
SbStdouts == {"", "1\n", "hi\n", "a\nb\n"}
SbStderrs == {"", "e\n", "w\nw\n"}
SbEnds == {"return", "ZeroDivisionError", "SystemExit", "KeyboardInterrupt", "os._exit"}
Programs == [stdout : SbStdouts, stderr : SbStderrs, ends : SbEnds]

InitSandbox ==
    /\ files = BaseFiles
    /\ dirs = BaseDirs
    /\ links = NoLinks
    /\ last = NoCall
    /\ ncalls = 0
    /\ EngineOff
    /\ RestIdle

\* One call of execute_python_code by a caller that goes on if the call lets it.
Exec(code) ==
    /\ ncalls < MaxCalls
    /\ IF last = NoCall THEN TRUE ELSE last.out.ok
    /\ ncalls' = ncalls + 1
    /\ last' = [op |-> "execute_python_code", code |-> code,
                out |-> execute_python_code(code)]
    /\ UNCHANGED <<fsVars, engVars, restVars>>

NextSandbox == \E code \in Programs : Exec(code)

SpecSandbox == InitSandbox /\ [][NextSandbox]_vars

(***************************************************************************)
(* One invocation of ClaudeEngine.run on the workspace /ws. The model's    *)
(* reply to a request is any sequence of at most MaxBlocks blocks, handled *)
(* one block at a step in the order of resp.content; what the model is     *)
(* sent (messages) decides nothing in the loop but the reply, which is     *)
(* arbitrary here. A block that is neither text nor tool_use changes       *)
(* nothing, and is a stuttering step.                                      *)
(*                                                                         *)
(* Spec: the model may ask for a tool that does not exist as often as it   *)
(* likes, and for a few of the tools that do, so that an invocation can    *)
(* last all the turns range(max_turns) allows.                             *)
(* SpecTools: the model asks for tools that exist, with arguments of every *)
(* kind, at most MaxCalls times.                                           *)
(***************************************************************************)
max_turns == 20

\* the blocks of one reply
MaxBlocks == 2

Texts == {"hi", "ok\n~~~py\nx = 1\n~~~"}

NoArgs == [k \in {} |-> ""]
Prints == [stdout |-> "1\n", stderr |-> "", ends |-> "return"]
Divides == [stdout |-> "1\n", stderr |-> "", ends |-> "ZeroDivisionError"]
Exits == [stdout |-> "", stderr |-> "", ends |-> "SystemExit"]

ToolCall(name, args) == [name |-> name, args |-> args]

\* the tool_use blocks the model may send in Spec
LoopCalls ==
    {ToolCall("bogus", NoArgs),
     ToolCall("read_file", NoArgs),
     ToolCall("write_file", [path |-> "a", content |-> "x"]),
     ToolCall("execute_python_code", [code |-> Exits])}

\* the tool_use blocks the model may send in SpecTools
ToolCalls ==
    {ToolCall("read_file", [path |-> "../etc/p"]), ToolCall("read_file", NoArgs),
     ToolCall("read_file", [path |-> "b"])}
    \cup {ToolCall("write_file", [path |-> "a", content |-> "x"]),
          ToolCall("write_file", [path |-> "b", content |-> "y"]),
          ToolCall("write_file", [path |-> "../etc/p", content |-> "y"])}
    \cup {ToolCall("edit_file", [path |-> "a", old_string |-> e[1], new_string |-> e[2]]) :
            e \in {<<"x", "y">>, <<"x", "x">>, <<"q", "y">>}}
    \cup {ToolCall("edit_file", [path |-> "b", old_string |-> "x", new_string |-> "y"])}
    \cup {ToolCall("list_files", NoArgs)}
    \cup {ToolCall("glob_files", [pattern |-> "*"])}
    \cup {ToolCall("grep_files", [pattern |-> pattern]) : pattern \in {"x", "("}}
    \cup {ToolCall("execute_python_code", [code |-> code]) :
            code \in {Prints, Divides, Exits}}

Init ==
    /\ files = BaseFiles
    /\ dirs = BaseDirs
    /\ links = NoLinks
    /\ last = NoCall
    /\ ncalls = 0
    /\ pc = "request"
    /\ turn = 0
    /\ nblk = 0
    /\ text = ""
    /\ files_changed = <<>>
    /\ tool_results = <<>>
    /\ response = NoResponse
    /\ turn_text = <<>>
    /\ said = ""
    /\ wlog = <<>>
    /\ conversation = NotFollowed
    /\ RestIdle

\* assistant_content.append(block)
Block(c, block) ==
    IF c.followed
       THEN [c EXCEPT !.assistant_content = Append(c.assistant_content, block)]
       ELSE c

\* what run does not do: send the tool results of every turn, had or not
M_AlwaysResults(c, results) ==
    [c EXCEPT !.messages =
        c.messages \o <<[role |-> "assistant", content |-> c.assistant_content],
                        [role |-> "user", content |-> results]>>]

\* messages.append of the model's turn and, after "if not tool_results:
\* break", of the tool results
TurnAppended(c, results) ==
    IF c.followed
       THEN [c EXCEPT !.messages =
               c.messages
               \o <<[role |-> "assistant", content |-> c.assistant_content]>>
               \o (IF results # <<>>
                      THEN <<[role |-> "user", content |-> results]>>
                      ELSE <<>>)]
       ELSE c

\* what run does not do: keep the first text it was given
M_FirstText(current, block_text) == IF current = "" THEN block_text ELSE current

\* text = block.text
CurrentText(current, block_text) == block_text

\* the head of the for loop and client.messages.create: the next request
SendRequest ==
    /\ pc = "request"
    /\ turn < max_turns
    /\ turn' = turn + 1
    /\ pc' = "content"
    /\ nblk' = 0
    /\ tool_results' = <<>>
    /\ turn_text' = <<>>
    /\ last' = NoCall
    /\ conversation' = [conversation EXCEPT !.assistant_content = <<>>]
    /\ UNCHANGED <<fsVars, ncalls, text, files_changed, response, said, wlog, restVars>>

\* a block of type "text"
TextBlock(t) ==
    /\ pc = "content"
    /\ nblk < MaxBlocks
    /\ nblk' = nblk + 1
    /\ text' = CurrentText(text, t)
    /\ turn_text' = Append(turn_text, t)
    /\ conversation' = Block(conversation, [type |-> "text", text |-> t])
    /\ last' = NoCall
    /\ UNCHANGED <<fsVars, ncalls, pc, turn, files_changed, tool_results, response,
                   said, wlog, restVars>>

\* what the loop does not do: put the newest result first
M_NewestFirst(results, id, content) ==
    <<[type |-> "tool_result", tool_use_id |-> id, content |-> content]>> \o results

\* tool_results.append({...})
Appended_result(results, id, content) ==
    Append(results, [type |-> "tool_result", tool_use_id |-> id, content |-> content])

\* what the loop does with the outcome r of _run_tool for the block numbered id:
\* tool_results.append, unless the call let something escape, which nothing
\* in run catches
Dispatched(call, id, r) ==
    /\ nblk' = nblk + 1
    /\ ncalls' = IF call.name \in ToolNames THEN ncalls + 1 ELSE ncalls
    /\ files' = r.files
    /\ dirs' = r.dirs
    /\ files_changed' = r.files_changed
    /\ wlog' = IF call.name \in {"write_file", "edit_file"}
                  THEN Append(wlog, [path |-> Get(call.args, "path", ""),
                                     ok |-> r.raw.ok])
                  ELSE wlog
    /\ last' = [op |-> "_run_tool", name |-> call.name, args |-> call.args,
                root |-> Root, out |-> r.out, raw |-> r.raw,
                touched |-> r.touched, changed_before |-> files_changed]
    /\ IF r.out.ok
          THEN /\ tool_results' = Appended_result(tool_results, id, r.out.val)
               /\ UNCHANGED <<pc, response>>
          ELSE /\ pc' = "raised"
               /\ response' = [kind |-> "raised", exc |-> r.out.exc]
               /\ UNCHANGED tool_results
    /\ conversation' = Block(conversation,
                              [type |-> "tool_use", id |-> id, name |-> call.name,
                               input |-> call.args])
    /\ UNCHANGED <<links, turn, text, turn_text, said, restVars>>

\* a block of type "tool_use"
ToolUseBlock(call) ==
    /\ pc = "content"
    /\ nblk < MaxBlocks
    /\ call.name \in ToolNames => ncalls < MaxCalls
    /\ Dispatched(call, <<turn, nblk + 1>>,
                  _run_tool(call.name, call.args, Root, files_changed))

EngineResponse(t, code_blocks, changed) ==
    [kind |-> "EngineResponse", text |-> t, code_blocks |-> code_blocks,
     files_changed |-> changed]

\* what the loop does not do: go on until the ceiling whatever the turn held
M_EndsAtCeilingOnly(results, t) == t = max_turns

\* "if not tool_results: break", and the end of range(max_turns)
LoopEnds(results, t) == results = <<>> \/ t = max_turns

\* the end of resp.content: break when no tool was called, go round again
\* while range(max_turns) lasts, and after the loop build the response
EndOfContent ==
    /\ pc = "content"
    /\ said' = IF turn_text # <<>> THEN turn_text[Len(turn_text)] ELSE said
    /\ IF LoopEnds(tool_results, turn)
          THEN /\ pc' = "returned"
               /\ response' = EngineResponse(text, extract_code_blocks(text), files_changed)
          ELSE /\ pc' = "request"
               /\ UNCHANGED response
    /\ last' = NoCall
    /\ conversation' = TurnAppended(conversation, tool_results)
    /\ UNCHANGED <<fsVars, ncalls, turn, nblk, text, files_changed, tool_results,
                   turn_text, wlog, restVars>>

Next ==
    \/ SendRequest
    \/ \E t \in Texts : TextBlock(t)
    \/ \E call \in LoopCalls : ToolUseBlock(call)
    \/ EndOfContent

Spec == Init /\ [][Next]_vars

(***************************************************************************)
(* SpecCeiling: runs that go on to the ceiling of max_turns turns, with    *)
(* tool calls whose effect on the workspace shows                          *)
(***************************************************************************)
CeilingCalls ==
    {ToolCall("bogus", NoArgs),
     ToolCall("read_file", NoArgs),
     ToolCall("write_file", [path |-> "b", content |-> "y"]),
     ToolCall("write_file", [path |-> "a", content |-> "z"]),
     ToolCall("write_file", [path |-> "../etc/p", content |-> "y"])}

NextCeiling ==
    \/ SendRequest
    \/ TextBlock("hi")
    \/ \E call \in CeilingCalls : ToolUseBlock(call)
    \/ EndOfContent

SpecCeiling == Init /\ [][NextCeiling]_vars

NextTools ==
    \/ SendRequest
    \/ \E t \in Texts : TextBlock(t)
    \/ \E call \in ToolCalls : ToolUseBlock(call)
    \/ EndOfContent

SpecTools == Init /\ [][NextTools]_vars

(***************************************************************************)
(* SpecMessages: the message list of ClaudeEngine.run, followed over the   *)
(* first MaxTurns model turns for each history of Histories                *)
(***************************************************************************)
MaxTurns == 2

\* the caller's list: the messages of a session may carry more keys than run
\* copies
Histories ==
    {<<>>,
     <<[role |-> "user", content |-> "draw", id |-> "m1"],
       [role |-> "assistant", content |-> "done", id |-> "m2"]>>}

\* the list run builds before the loop: a new dict with the role and the
\* content of each message of history, then the new user message
FirstMessages(history, message) ==
    [i \in DOMAIN history |-> [role |-> history[i].role, content |-> history[i].content]]
    \o <<[role |-> "user", content |-> message]>>

InitMessages ==
    /\ files = BaseFiles
    /\ dirs = BaseDirs
    /\ links = NoLinks
    /\ last = NoCall
    /\ ncalls = 0
    /\ pc = "request"
    /\ turn = 0
    /\ nblk = 0
    /\ text = ""
    /\ files_changed = <<>>
    /\ tool_results = <<>>
    /\ response = NoResponse
    /\ turn_text = <<>>
    /\ said = ""
    /\ wlog = <<>>
    /\ \E history \in Histories :
          conversation = [followed |-> TRUE, history |-> history, message |-> "hi",
                          messages |-> FirstMessages(history, "hi"),
                          assistant_content |-> <<>>]
    /\ RestIdle

NextMessages ==
    \/ turn < MaxTurns /\ SendRequest
    \/ TextBlock("hi")
    \/ \E call \in {ToolCall("bogus", NoArgs),
                    ToolCall("write_file", [path |-> "a", content |-> "x"]),
                    ToolCall("read_file", NoArgs)} : ToolUseBlock(call)
    \/ EndOfContent

SpecMessages == InitMessages /\ [][NextMessages]_vars

(***************************************************************************)
(* SpecEdit: edit_file applied once to the file /ws/a, for every content   *)
(* of the file and every old_string and new_string of the bounded sets     *)
(***************************************************************************)
\* the length of the file edit_file is applied to
MaxLen == 5

EditChars == {"a", "b", "X"}

RECURSIVE StringsUpTo(_)
StringsUpTo(n) ==
    IF n = 0 THEN {""}
    ELSE StringsUpTo(n - 1)
         \cup {t \o c : t \in {u \in StringsUpTo(n - 1) : Len(u) = n - 1}, c \in EditChars}

EditTexts == StringsUpTo(MaxLen)
EditOlds == {"X", "Xb", "XX", "", "c"}
EditNews == {"Y", "", "XX"}
EditLoc == <<"ws", "a">>

InitEdit ==
    /\ \E t \in EditTexts : files = [BaseFiles EXCEPT ![EditLoc] = t]
    /\ dirs = BaseDirs
    /\ links = NoLinks
    /\ last = NoCall
    /\ ncalls = 0
    /\ EngineOff
    /\ RestIdle

EditOnce(old_string, new_string) ==
    /\ last = NoCall
    /\ LET r == edit_file("a", old_string, new_string, Root)
       IN  /\ files' = r.files
           /\ dirs' = r.dirs
           /\ last' = [op |-> "edit_file",
                       args |-> [path |-> "a", old_string |-> old_string,
                                 new_string |-> new_string],
                       root |-> Root, out |-> r.out, touched |-> r.touched,
                       before |-> files[EditLoc]]
    /\ ncalls' = ncalls + 1
    /\ UNCHANGED <<links, engVars, restVars>>

NextEdit == \E old_string \in EditOlds, new_string \in EditNews : EditOnce(old_string, new_string)

SpecEdit == InitEdit /\ [][NextEdit]_vars

----------------------------------------------------------------------------
\* write_file next to a reader.  Path.write_text is open(mode "w"), which
\* creates or truncates the file, then write and close, which put the content
\* into it: the buffered text layer hands the content to the operating system
\* in one or several pieces.  Nothing is written to a temporary file and
\* renamed.  Another thread (the executor the crew engine runs in) or another
\* request can call read_file between any two of these steps.

InitWrite ==
    /\ files = FsFiles
    /\ dirs = BaseDirs
    /\ links = NoLinks
    /\ last = NoCall
    /\ ncalls = 0
    /\ EngineOff
    /\ RestIdle

\* write_file up to the open inside write_text: _resolve, mkdir, and the open
\* that leaves an empty file; r is what the whole call is going to return
BeginWrite(path, content, r) ==
    /\ wr = NoWrite
    /\ ncalls < MaxCalls
    /\ dirs' = r.dirs
    /\ IF r.out.ok
          THEN LET loc == _resolve(path, Root).val IN
               /\ files' = SetFile(loc, "")
               /\ wr' = [stage |-> "open", path |-> path, content |-> content,
                         loc |-> loc,
                         old |-> IF IsFile(loc) THEN <<files[loc]>> ELSE <<>>,
                         written |-> 0, out |-> r.out, touched |-> r.touched]
               /\ UNCHANGED <<last, ncalls>>
          ELSE /\ files' = r.files
               /\ ncalls' = ncalls + 1
               /\ last' = [op |-> "write_file",
                           args |-> [path |-> path, content |-> content],
                           root |-> Root, out |-> r.out, touched |-> r.touched]
               /\ UNCHANGED wr
    /\ UNCHANGED <<links, engVars, _engines, _instances, built, sessions, environ, calls, sys>>

\* the next k characters of the content reach the file
Flush(k) ==
    /\ wr.stage = "open"
    /\ wr.written + k <= Len(wr.content)
    /\ files' = SetFile(wr.loc, SubSeq(wr.content, 1, wr.written + k))
    /\ wr' = [wr EXCEPT !.written = @ + k]
    /\ UNCHANGED <<dirs, links, last, ncalls, engVars, _engines, _instances, built,
                   sessions, environ, calls, sys>>

\* everything is written: the file is closed and write_file returns
EndWrite ==
    /\ wr.stage = "open"
    /\ wr.written = Len(wr.content)
    /\ wr' = NoWrite
    /\ ncalls' = ncalls + 1
    /\ last' = [op |-> "write_file",
                args |-> [path |-> wr.path, content |-> wr.content],
                root |-> Root, out |-> wr.out, touched |-> wr.touched]
    /\ UNCHANGED <<fsVars, engVars, _engines, _instances, built, sessions, environ, calls, sys>>

\* read_file called by someone else, at any moment; the record keeps the
\* write that was in progress
ReadFile(path, r) ==
    /\ last' = [op |-> "read_file", args |-> [path |-> path], root |-> Root,
                out |-> r.out, touched |-> r.touched, during |-> wr]
    /\ UNCHANGED <<fsVars, ncalls, engVars, restVars>>

NextWrite ==
    \/ \E path \in {"a", "n/c", "d", "../etc/p"}, content \in {"", "x\nx", "new"} :
          BeginWrite(path, content, write_file(path, content, Root))
    \/ \E k \in 1..MaxLen : Flush(k)
    \/ EndWrite
    \/ \E path \in {"a", "n/c", "d", "../etc/p"} : ReadFile(path, read_file(path, Root))

SpecWrite == InitWrite /\ [][NextWrite]_vars

----------------------------------------------------------------------------
\* The engine registry (backend/engines/registry.py): register and get_engine
\* called in any order.  An engine class is known by its name; the class
\* BrokenEngine is one whose constructor raises.  An instance is known by the
\* class that built it and by the call that built it.

MaxOps == 4

InitRegistry ==
    /\ files = BaseFiles
    /\ dirs = BaseDirs
    /\ links = NoLinks
    /\ last = NoCall
    /\ ncalls = 0
    /\ EngineOff
    /\ RestIdle

\* _engines[engine_id] = engine_class: a dict keeps the place of a key it has
register(engine_id, engine_class) ==
    /\ ncalls < MaxOps
    /\ ncalls' = ncalls + 1
    /\ _engines' =
          IF \E i \in DOMAIN _engines : _engines[i][1] = engine_id
             THEN [i \in DOMAIN _engines |->
                     IF _engines[i][1] = engine_id THEN <<engine_id, engine_class>>
                     ELSE _engines[i]]
             ELSE Append(_engines, <<engine_id, engine_class>>)
    /\ last' = [op |-> "register",
                args |-> [engine_id |-> engine_id, engine_class |-> engine_class],
                out |-> Ret("None")]
    /\ UNCHANGED <<fsVars, engVars, wr, _instances, built, sessions, environ, calls, sys>>

\* what the message does not do: name the first registered id only
M_FirstKeyOnly(d, i) == IF d = <<>> THEN "" ELSE "'" \o d[1][1] \o "'"

RECURSIVE KeysRepr(_, _)
\* the inside of the repr of list(_engines.keys()), from the i-th key on
KeysRepr(d, i) ==
    IF i > Len(d) THEN ""
    ELSE "'" \o d[i][1] \o "'" \o (IF i < Len(d) THEN ", " ELSE "")
         \o KeysRepr(d, i + 1)

\* what get_engine does not do: build a new instance on every call
M_NeverCached(instances, engine_id) == FALSE

\* what get_engine does not do: keep the instances of one engine id only
M_CachedForClaudeOnly(instances, engine_id) ==
    engine_id = "claude" /\ engine_id \in DOMAIN instances

\* engine_id in _instances
Cached(instances, engine_id) == engine_id \in DOMAIN instances

\* engine_class(**kwargs) as call number serial: no engine class defines
\* __init__, so any keyword argument is a TypeError; BrokenEngine stands for a
\* class whose constructor raises
Construct(engine_class, kwargs, serial) ==
    IF engine_class = "BrokenEngine" THEN Raise("RuntimeError", "")
    ELSE IF kwargs # {}
        THEN Raise("TypeError", engine_class \o "() takes no arguments")
    ELSE Ret([built_by |-> engine_class, call |-> serial])

\* get_engine, c being the outcome of the constructor call it makes when
\* engine_id is registered and not cached
Got(engine_id, kwargs, engine_class, c) ==
    /\ ncalls < MaxOps
    /\ ncalls' = ncalls + 1
    /\ IF \A i \in DOMAIN _engines : _engines[i][1] # engine_id
          THEN /\ last' = [op |-> "get_engine",
                           args |-> [engine_id |-> engine_id, kwargs |-> kwargs],
                           out |-> Raise("ValueError",
                                         "Unknown engine: " \o engine_id
                                            \o ". Available: ["
                                            \o KeysRepr(_engines, 1) \o "]")]
               /\ UNCHANGED <<_instances, built>>
          ELSE IF Cached(_instances, engine_id)
             THEN /\ last' = [op |-> "get_engine",
                              args |-> [engine_id |-> engine_id, kwargs |-> kwargs],
                              out |-> Ret(_instances[engine_id])]
                  /\ UNCHANGED <<_instances, built>>
             ELSE /\ built' = Append(built, [by |-> "get_engine", id |-> engine_id,
                                             cls |-> engine_class, ok |-> c.ok])
                  /\ _instances' =
                        IF c.ok
                           THEN [k \in DOMAIN _instances \cup {engine_id} |->
                                   IF k = engine_id THEN c.val ELSE _instances[k]]
                           ELSE _instances
                  /\ last' = [op |-> "get_engine",
                              args |-> [engine_id |-> engine_id, kwargs |-> kwargs],
                              out |-> c]
    /\ UNCHANGED <<fsVars, engVars, wr, _engines, sessions, environ, calls, sys>>

\* the class registered for engine_id, "" if there is none
ClassOf(engine_id) ==
    IF \A i \in DOMAIN _engines : _engines[i][1] # engine_id THEN ""
    ELSE _engines[CHOOSE i \in DOMAIN _engines : _engines[i][1] = engine_id][2]

get_engine(engine_id, kwargs) ==
    Got(engine_id, kwargs, ClassOf(engine_id),
        Construct(ClassOf(engine_id), kwargs, ncalls + 1))

\* the class-level name and supports_models of an engine class; BrokenEngine
\* keeps the defaults of AgentEngine
ClassAttrs(engine_class) ==
    CASE engine_class = "ClaudeEngine"
            -> [name |-> "Claude (Anthropic)", supports_models |-> <<"anthropic">>]
      [] engine_class = "CrewAIEngine"
            -> [name |-> "CrewAI", supports_models |-> <<"openai", "anthropic">>]
      [] engine_class = "LangGraphEngine"
            -> [name |-> "LangGraph",
                supports_models |-> <<"openai", "anthropic", "google">>]
      [] engine_class = "OpenHandsEngine"
            -> [name |-> "OpenHands", supports_models |-> <<"openai", "anthropic">>]
      [] OTHER -> [name |-> "", supports_models |-> <<>>]

\* what list_engines does not do: name a class that cannot be built by its id
M_NoClassFallback(eid, cls, c) ==
    IF c.ok
       THEN [id |-> eid, name |-> ClassAttrs(cls).name,
             supports_models |-> ClassAttrs(cls).supports_models]
       ELSE [id |-> eid, name |-> eid, supports_models |-> <<>>]

\* the entry of one registered class, c being the outcome of cls(): an
\* instance has the attributes of its class, which are also the fallback
ListEntry(eid, cls, c) ==
    [id |-> eid, name |-> ClassAttrs(cls).name,
     supports_models |-> ClassAttrs(cls).supports_models]

list_engines ==
    /\ ncalls < MaxOps
    /\ ncalls' = ncalls + 1
    /\ built' = built \o [i \in DOMAIN _engines |->
                            [by |-> "list_engines", id |-> _engines[i][1],
                             cls |-> _engines[i][2],
                             ok |-> Construct(_engines[i][2], {}, 0).ok]]
    /\ last' = [op |-> "list_engines",
                out |-> Ret([i \in DOMAIN _engines |->
                               ListEntry(_engines[i][1], _engines[i][2],
                                         Construct(_engines[i][2], {}, 0))])]
    /\ UNCHANGED <<fsVars, engVars, wr, _engines, _instances, sessions, environ, calls, sys>>

\* what clear_instances does not do: leave the cache as it is
M_KeepsInstances(instances) == instances

\* _instances after _instances.clear()
Cleared(instances) == <<>>

\* _instances.clear()
clear_instances ==
    /\ ncalls < MaxOps
    /\ ncalls' = ncalls + 1
    /\ _instances' = Cleared(_instances)
    /\ built' = Append(built, [by |-> "clear_instances", id |-> "", cls |-> "",
                                ok |-> TRUE])
    /\ last' = [op |-> "clear_instances", out |-> Ret("None")]
    /\ UNCHANGED <<fsVars, engVars, wr, _engines, sessions, environ, calls, sys>>

NextRegistry ==
    \/ \E engine_id \in {"claude", "crewai"},
          engine_class \in {"ClaudeEngine", "CrewAIEngine", "BrokenEngine"} :
          register(engine_id, engine_class)
    \/ \E engine_id \in {"claude", "crewai", "nonexistent"},
          kwargs \in {{}, {"workspace_path"}} :
          get_engine(engine_id, kwargs)
    \/ clear_instances
    \/ list_engines

SpecRegistry == InitRegistry /\ [][NextRegistry]_vars

(***************************************************************************)
(* SpecRace: two edit_file calls on /ws/a made at the same time, by two    *)
(* threads or two requests.  A call reads the file, computes the new text  *)
(* from what it read and writes it with write_text, which opens the file   *)
(* (leaving it empty) and then puts the text into it; nothing is locked, so *)
(* the steps of the two calls interleave freely.                           *)
(***************************************************************************)
Idle == [pc |-> "idle"]

InitRace ==
    /\ \E content \in {"ab", "abc", "b a"} :
          files = [p \in DOMAIN BaseFiles |->
                     IF p = <<"ws", "a">> THEN content ELSE BaseFiles[p]]
    /\ dirs = BaseDirs
    /\ links = NoLinks
    /\ last = NoCall
    /\ ncalls = 0
    /\ EngineOff
    /\ wr = NoWrite
    /\ _engines = <<>>
    /\ _instances = <<>>
    /\ built = <<>>
    /\ sessions = <<>>
    /\ environ = {"key", "provider"}
    /\ calls = [i \in {1, 2} |-> Idle]
    /\ sys = StdStreams

\* what edit_file does not do: build the new text from the file as it is when
\* the text is written
M_EditsCurrent(read, current, old_string, new_string) ==
    ReplaceFirst(current, old_string, new_string)

\* new_text = text.replace(old_string, new_string, 1), text being what
\* read_text returned
NewText(read, current, old_string, new_string) ==
    ReplaceFirst(read, old_string, new_string)

\* edit_file up to the end of read_text and the test of old_string, r being
\* what the call returns if it ends here
EditRead(i, path, old_string, new_string, r) ==
    /\ calls[i].pc = "idle"
    /\ IF r.out.ok
          THEN /\ calls' = [calls EXCEPT ![i] =
                              [pc |-> "read", path |-> path, old_string |-> old_string,
                               new_string |-> new_string,
                               loc |-> _resolve(path, Root).val,
                               text |-> files[_resolve(path, Root).val]]]
               /\ UNCHANGED <<last, ncalls>>
          ELSE /\ calls' = [calls EXCEPT ![i] =
                              [pc |-> "done", path |-> path, old_string |-> old_string,
                               new_string |-> new_string, out |-> r.out]]
               /\ ncalls' = ncalls + 1
               /\ last' = [op |-> "edit_file", call |-> i,
                           args |-> [path |-> path, old_string |-> old_string,
                                     new_string |-> new_string],
                           root |-> Root, out |-> r.out, touched |-> r.touched]
    /\ UNCHANGED <<fsVars, engVars, wr, _engines, _instances, built, sessions,
                   environ, sys>>

\* the open of write_text: the file is empty
EditOpen(i) ==
    /\ calls[i].pc = "read"
    /\ files' = SetFile(calls[i].loc, "")
    /\ calls' = [calls EXCEPT ![i].pc = "open"]
    /\ UNCHANGED <<dirs, links, last, ncalls, engVars, wr, _engines, _instances, built,
                   sessions, environ, sys>>

\* the text is written, the file closed, and edit_file returns
EditClose(i) ==
    /\ calls[i].pc = "open"
    /\ files' = SetFile(calls[i].loc,
                        NewText(calls[i].text, files[calls[i].loc],
                                calls[i].old_string, calls[i].new_string))
    /\ calls' = [calls EXCEPT ![i] =
                   [pc |-> "done", path |-> calls[i].path,
                    old_string |-> calls[i].old_string,
                    new_string |-> calls[i].new_string, text |-> calls[i].text,
                    out |-> Ret("Edited " \o calls[i].path \o ": 1 replacement")]]
    /\ ncalls' = ncalls + 1
    /\ last' = [op |-> "edit_file", call |-> i,
                args |-> [path |-> calls[i].path, old_string |-> calls[i].old_string,
                          new_string |-> calls[i].new_string],
                root |-> Root,
                out |-> Ret("Edited " \o calls[i].path \o ": 1 replacement"),
                touched |-> {calls[i].loc}]
    /\ UNCHANGED <<dirs, links, engVars, wr, _engines, _instances, built, sessions,
                   environ, sys>>

NextRace ==
    \/ \E i \in {1, 2}, e \in {<<"a", "A">>, <<"b", "B">>, <<"c", "C">>} :
          EditRead(i, "a", e[1], e[2], edit_file("a", e[1], e[2], Root))
    \/ \E i \in {1, 2} : EditOpen(i)
    \/ \E i \in {1, 2} : EditClose(i)

SpecRace == InitRace /\ [][NextRace]_vars

(***************************************************************************)
(* SpecThreads: two execute_python_code calls made at the same time by two *)
(* threads of the process (CrewAIEngine.run hands crew.kickoff, and with   *)
(* it the calls of its tools, to the threads of the default executor).     *)
(* redirect_stdout and redirect_stderr bind sys.stdout and sys.stderr of   *)
(* the process to the StringIO of the call on entry and bind them back, on *)
(* exit, to what they found; what a program prints goes to what            *)
(* sys.stdout is bound to when it prints.  Nothing is locked, so the steps *)
(* of the two calls interleave freely.                                     *)
(***************************************************************************)
\* the programs of the two threads: each prints its own line, may write to
\* stderr, and runs to its end or raises
ThreadPrograms(i) ==
    [stdout : {IntStr(i) \o "\n"}, stderr : {"", "e" \o IntStr(i) \o "\n"},
     ends : {"return", "ZeroDivisionError"}]

\* the StringIO objects of call i
Capture(i, stream) == [call |-> i, stream |-> stream]

InitThreads ==
    /\ files = BaseFiles
    /\ dirs = BaseDirs
    /\ links = NoLinks
    /\ last = NoCall
    /\ ncalls = 0
    /\ EngineOff
    /\ wr = NoWrite
    /\ _engines = <<>>
    /\ _instances = <<>>
    /\ built = <<>>
    /\ sessions = <<>>
    /\ environ = {"key", "provider"}
    /\ calls = [i \in {1, 2} |-> Idle]
    /\ sys = StdStreams

\* redirect_stdout(stdout_capture).__enter__
EnterStdout(i, code) ==
    /\ calls[i].pc = "idle"
    /\ calls' = [calls EXCEPT ![i] =
                   [pc |-> "stdout", code |-> code, stdout_capture |-> "",
                    stderr_capture |-> "", old_stdout |-> sys.stdout]]
    /\ sys' = [sys EXCEPT !.stdout = Capture(i, "stdout")]
    /\ UNCHANGED <<fsVars, last, ncalls, engVars, wr, _engines, _instances, built,
                   sessions, environ>>

\* redirect_stderr(stderr_capture).__enter__
EnterStderr(i) ==
    /\ calls[i].pc = "stdout"
    /\ calls' = [calls EXCEPT ![i] =
                   [pc |-> "exec", code |-> calls[i].code,
                    stdout_capture |-> calls[i].stdout_capture,
                    stderr_capture |-> calls[i].stderr_capture,
                    old_stdout |-> calls[i].old_stdout, old_stderr |-> sys.stderr]]
    /\ sys' = [sys EXCEPT !.stderr = Capture(i, "stderr")]
    /\ UNCHANGED <<fsVars, last, ncalls, engVars, wr, _engines, _instances, built,
                   sessions, environ>>

\* the calls after s was written to target: a StringIO of a call that has not
\* read it yet takes it, anything else leaves the calls as they are
Written(c, target, s) ==
    IF target \in {Capture(j, "stdout") : j \in {k \in DOMAIN c : c[k].pc \notin {"idle", "done"}}}
        THEN [c EXCEPT ![target.call].stdout_capture = @ \o s]
    ELSE IF target \in {Capture(j, "stderr") : j \in {k \in DOMAIN c : c[k].pc \notin {"idle", "done"}}}
        THEN [c EXCEPT ![target.call].stderr_capture = @ \o s]
    ELSE c

\* the program writes to sys.stdout
WriteStdout(i) ==
    /\ calls[i].pc = "exec"
    /\ calls' = Written([calls EXCEPT ![i].pc = "printed"], sys.stdout,
                        calls[i].code.stdout)
    /\ UNCHANGED <<fsVars, last, ncalls, engVars, wr, _engines, _instances, built,
                   sessions, environ, sys>>

\* the program writes to sys.stderr, and ends
WriteStderr(i) ==
    /\ calls[i].pc = "printed"
    /\ calls' = Written([calls EXCEPT ![i].pc = "ran"], sys.stderr,
                        calls[i].code.stderr)
    /\ UNCHANGED <<fsVars, last, ncalls, engVars, wr, _engines, _instances, built,
                   sessions, environ, sys>>

\* redirect_stderr.__exit__
ExitStderr(i) ==
    /\ calls[i].pc = "ran"
    /\ calls' = [calls EXCEPT ![i].pc = "stderr_back"]
    /\ sys' = [sys EXCEPT !.stderr = calls[i].old_stderr]
    /\ UNCHANGED <<fsVars, last, ncalls, engVars, wr, _engines, _instances, built,
                   sessions, environ>>

\* redirect_stdout.__exit__
ExitStdout(i) ==
    /\ calls[i].pc = "stderr_back"
    /\ calls' = [calls EXCEPT ![i].pc = "stdout_back"]
    /\ sys' = [sys EXCEPT !.stdout = calls[i].old_stdout]
    /\ UNCHANGED <<fsVars, last, ncalls, engVars, wr, _engines, _instances, built,
                   sessions, environ>>

\* getvalue() of the two StringIO objects, and the return
Returned(i, out) ==
    /\ calls[i].pc = "stdout_back"
    /\ calls' = [calls EXCEPT ![i] =
                   [pc |-> "done", code |-> calls[i].code,
                    stdout_capture |-> calls[i].stdout_capture,
                    stderr_capture |-> calls[i].stderr_capture, out |-> out]]
    /\ ncalls' = ncalls + 1
    /\ last' = [op |-> "execute_python_code", call |-> i, code |-> calls[i].code,
                out |-> out]
    /\ UNCHANGED <<fsVars, engVars, wr, _engines, _instances, built, sessions,
                   environ, sys>>

Return(i) ==
    Returned(i, execute_python_code([stdout |-> calls[i].stdout_capture,
                                     stderr |-> calls[i].stderr_capture,
                                     ends |-> calls[i].code.ends]))

NextThreads ==
    \/ \E i \in {1, 2} : \E code \in ThreadPrograms(i) : EnterStdout(i, code)
    \/ \E i \in {1, 2} : EnterStderr(i)
    \/ \E i \in {1, 2} : WriteStdout(i)
    \/ \E i \in {1, 2} : WriteStderr(i)
    \/ \E i \in {1, 2} : ExitStderr(i)
    \/ \E i \in {1, 2} : ExitStdout(i)
    \/ \E i \in {1, 2} : Return(i)

SpecThreads == InitThreads /\ [][NextThreads]_vars

(***************************************************************************)
(* Skills (backend/skills/loader.py)                                       *)
(*                                                                         *)
(* A skill is [name, content], content being what load_skill_content       *)
(* returns for it: the text of its SKILL.md, "" when the file is missing.  *)
(***************************************************************************)
TruncationMarker == "\n...(truncated)"

\* what the loop does not do: leave the budget as it was
M_NothingSpent(budget, content) == budget

\* budget -= len(content), content being what was added
Spent(budget, content) == budget - Len(content)

\* the content as it is added under the budget left
Fitted(content, budget) ==
    IF Len(content) > budget THEN SubSeq(content, 1, budget) \o TruncationMarker
    ELSE content

RECURSIVE SkillsFrom(_, _, _, _)
\* the loop of get_skills_context from the i-th skill on: parts, and for each
\* part the skill it came from, its content and the budget it was added under
SkillsFrom(skills, i, budget, acc) ==
    IF i > Len(skills) THEN acc
    ELSE IF skills[i].content = "" THEN SkillsFrom(skills, i + 1, budget, acc)
    ELSE LET content == Fitted(skills[i].content, budget)
             next == [parts |-> Append(acc.parts, "## Skill: " \o skills[i].name
                                                     \o "\n" \o content),
                      added |-> Append(acc.added, [skill |-> i, content |-> content,
                                                   budget |-> budget])]
         IN  IF Spent(budget, content) <= 0 THEN next
             ELSE SkillsFrom(skills, i + 1, Spent(budget, content), next)

RECURSIVE JoinWith(_, _)
\* sep.join(parts)
JoinWith(parts, sep) ==
    IF parts = <<>> THEN ""
    ELSE IF Len(parts) = 1 THEN parts[1]
    ELSE parts[1] \o sep \o JoinWith(Tail(parts), sep)

get_skills_context(skills, max_tokens_approx) ==
    LET r == SkillsFrom(skills, 1, max_tokens_approx * 4,
                        [parts |-> <<>>, added |-> <<>>])
    IN  [out |-> Ret(JoinWith(r.parts, "\n\n---\n\n")), added |-> r.added]

(***************************************************************************)
(* SpecSkills: get_skills_context applied to every list of at most         *)
(* MaxSkills skills with the contents of SkillContents, for small budgets  *)
(***************************************************************************)
MaxSkills == 3

SkillContents == {"", "abc", "abcd", "abcdefghij"}

RECURSIVE SkillLists(_)
SkillLists(n) ==
    IF n = 0 THEN {<<>>}
    ELSE SkillLists(n - 1)
         \cup {Append(l, [name |-> "s" \o IntStr(n), content |-> c]) :
                 l \in {s \in SkillLists(n - 1) : Len(s) = n - 1}, c \in SkillContents}

InitSkills ==
    /\ files = BaseFiles
    /\ dirs = BaseDirs
    /\ links = NoLinks
    /\ \E skills \in SkillLists(MaxSkills), max_tokens_approx \in {1, 2} :
          last = [op |-> "skills", skills |-> skills,
                  max_tokens_approx |-> max_tokens_approx]
    /\ ncalls = 0
    /\ EngineOff
    /\ RestIdle

Context(r) ==
    /\ last.op = "skills"
    /\ ncalls' = ncalls + 1
    /\ last' = [op |-> "get_skills_context",
                args |-> [skills |-> last.skills,
                          max_tokens_approx |-> last.max_tokens_approx],
                out |-> r.out, added |-> r.added]
    /\ UNCHANGED <<fsVars, engVars, restVars>>

CallContext == Context(get_skills_context(last.skills, last.max_tokens_approx))

SpecSkills == InitSkills /\ [][CallContext]_vars

(***************************************************************************)
(* Engines as the API layer sees them (backend/engines/*_engine.py)        *)
(*                                                                         *)
(* A script is what the agent does in one invocation once its model can be *)
(* reached: the text it answers with, the write_file call it makes (write  *)
(* is <<>> or <<path, content>>) and how the invocation ends: "return", an *)
(* exception of the model API, or the SystemExit of a program the agent    *)
(* ran in the sandbox.                                                     *)
(***************************************************************************)
HtmlTitled == "~~~html\n<html><title>My Art!</title>\n~~~"
HtmlPlain == "see\n~~~html\n<!DOCTYPE html>\n~~~"

AgentScripts ==
    {[text |-> "ok", write |-> <<>>, ends |-> "return"],
     [text |-> HtmlTitled, write |-> <<>>, ends |-> "return"],
     [text |-> HtmlPlain, write |-> <<>>, ends |-> "return"],
     [text |-> HtmlPlain, write |-> <<"a", "new">>, ends |-> "return"],
     [text |-> "", write |-> <<>>, ends |-> "RuntimeError"],
     [text |-> "", write |-> <<"a", "new">>, ends |-> "SystemExit"]}

\* the tool loop of an engine that uses the shared file tools, with its model
\* reachable: the write goes through filesystem.write_file, and a path is
\* added to files_changed when the call succeeded
AgentRun(script, w) ==
    [out |-> IF script.ends = "return"
                THEN Ret(EngineResponse(script.text, extract_code_blocks(script.text),
                                        IF script.write # <<>> /\ w.out.ok
                                           THEN <<script.write[1]>> ELSE <<>>))
                ELSE Raise(script.ends, "boom"),
     files |-> IF script.write # <<>> THEN w.files ELSE files,
     dirs |-> IF script.write # <<>> THEN w.dirs ELSE dirs,
     store |-> IF script.write # <<>> THEN w.touched ELSE {}]

\* OpenHandsEngine.run: both checks come before the agent is built
OpenHandsRun(script) ==
    [out |-> IF "provider" \notin environ
                THEN Ret(EngineResponse(
                        "OpenHands SDK not installed or incompatible: "
                           \o "No module named 'openhands.tools'. Install with: "
                           \o "pip install openhands-sdk openhands-tools",
                        <<>>, <<>>))
             ELSE IF "key" \notin environ
                THEN Ret(EngineResponse(
                        "Set OPENAI_API_KEY, ANTHROPIC_API_KEY, or LLM_API_KEY "
                           \o "to use OpenHands.", <<>>, <<>>))
             ELSE IF script.ends = "return"
                THEN Ret(EngineResponse(script.text, extract_code_blocks(script.text),
                                        <<>>))
             ELSE Raise(script.ends, "boom"),
     files |-> files, dirs |-> dirs, store |-> {}]

\* ClaudeEngine.run: Anthropic() and client.messages.create are called with no
\* try around them, so a client without a credential raises out of run
ClaudeRun(script, w) ==
    IF "key" \notin environ
       THEN [out |-> Raise("TypeError",
                           "Could not resolve authentication method."),
             files |-> files, dirs |-> dirs, store |-> {}]
       ELSE AgentRun(script, w)

\* LangGraphEngine.run: _get_model raises ImportError for a model whose
\* provider package is missing, and the chat model constructor raises without
\* a credential; run has no try around either
LangGraphRun(script, w) ==
    IF "provider" \notin environ
       THEN [out |-> Raise("ImportError",
                           "Gemini models require the langchain-google-genai "
                              \o "package. Install with: "
                              \o "pip install langchain-google-genai"),
             files |-> files, dirs |-> dirs, store |-> {}]
    ELSE IF "key" \notin environ
       THEN [out |-> Raise("OpenAIError",
                           "The api_key client option must be set"),
             files |-> files, dirs |-> dirs, store |-> {}]
    ELSE AgentRun(script, w)

\* engine.run of an instance of engine_class, w being the outcome of the
\* write_file call of the script
RunEngine(engine_class, script, w) ==
    CASE engine_class = "OpenHandsEngine" -> OpenHandsRun(script)
      [] engine_class = "LangGraphEngine" -> LangGraphRun(script, w)
      [] OTHER -> ClaudeRun(script, w)

(***************************************************************************)
(* The API layer (backend/app.py)                                          *)
(***************************************************************************)
RECURSIVE RStripChar(_, _)
RStripChar(s, c) ==
    IF s # "" /\ Char(s, Len(s)) = c THEN RStripChar(SubSeq(s, 1, Len(s) - 1), c)
    ELSE s

RECURSIVE SubRuns(_, _)
\* re.sub(r"[^a-z0-9]+", "-", s): inRun when the character before was replaced
SubRuns(s, inRun) ==
    IF s = "" THEN ""
    ELSE IF IndexIn(LowerCase \o Digits, Char(s, 1), 1) # 0
        THEN Char(s, 1) \o SubRuns(Tail(s), FALSE)
    ELSE (IF inRun THEN "" ELSE "-") \o SubRuns(Tail(s), TRUE)

RECURSIVE TitleFrom(_, _, _)
\* re.search(r"<title>(.*?)</title>", code, re.IGNORECASE) from index i on:
\* the group, which holds no newline, or no match
TitleFrom(code, low, i) ==
    LET a == FindFrom(low, "<title>", i)
        b == FindFrom(low, "</title>", a + 7)
    IN  IF a = 0 \/ b = 0 THEN [found |-> FALSE, group |-> ""]
        ELSE IF ~Contains(SubSeq(code, a + 7, b - 1), "\n")
            THEN [found |-> TRUE, group |-> SubSeq(code, a + 7, b - 1)]
        ELSE TitleFrom(code, low, a + 1)

\* what is not done: take the title as it stands for the name
M_TitleAsName(code) ==
    LET m == TitleFrom(code, Lower(code), 1)
    IN  IF m.found /\ m.group # "" THEN m.group \o ".html" ELSE "sketch.html"

\* the file name _auto_save_html gives an HTML document
HtmlName(code) ==
    LET m == TitleFrom(code, Lower(code), 1)
        slug == RStripChar(LStripChar(SubRuns(Lower(Strip(m.group)), FALSE), "-"), "-")
        name == IF Len(slug) > 40 THEN SubSeq(slug, 1, 40) ELSE slug
    IN  IF m.found /\ name # "" THEN name \o ".html" ELSE "sketch.html"

RECURSIVE FirstHtml(_, _)
\* the index of the first block from i on that holds a full document, 0 if
\* there is none
FirstHtml(code_blocks, i) ==
    IF i > Len(code_blocks) THEN 0
    ELSE IF Contains(code_blocks[i].code, "<!DOCTYPE")
            \/ Contains(code_blocks[i].code, "<html")
        THEN i
    ELSE FirstHtml(code_blocks, i + 1)

\* _auto_save_html on the workspace Root with the files f and directories d:
\* Path(workspace_path) / name is written with write_text, not through the
\* File Store; write_text fails on a directory and the failure is swallowed
_auto_save_html(code_blocks, changed, f, d) ==
    LET i == FirstHtml(code_blocks, 1)
        loc == RootParts(Root) \o <<HtmlName(code_blocks[i].code)>>
    IN  IF changed # <<>> \/ i = 0 \/ loc \in d
           THEN [files_changed |-> changed, files |-> f, saved |-> {}]
           ELSE [files_changed |-> <<HtmlName(code_blocks[i].code)>>,
                 files |-> [p \in DOMAIN f \cup {loc} |->
                              IF p = loc THEN code_blocks[i].code ELSE f[p]],
                 saved |-> {loc}]

\* the outcome of the write_file call of a script
ScriptWrite(script) ==
    IF script.write = <<>> THEN FsResult(Ret(""), files, dirs, {})
    ELSE write_file(script.write[1], script.write[2], Root)

\* registry.get_engine(engine_id) as the handlers call it
GetEngineOut(engine_id) ==
    IF ClassOf(engine_id) = ""
       THEN Raise("ValueError", "Unknown engine: " \o engine_id \o ". Available: ["
                                   \o KeysRepr(_engines, 1) \o "]")
    ELSE IF Cached(_instances, engine_id) THEN Ret(_instances[engine_id])
    ELSE Construct(ClassOf(engine_id), {}, ncalls + 1)

\* the content of a reply
Reply(sid, t, code_blocks, changed) ==
    [session_id |-> sid, response |-> t, code_blocks |-> code_blocks,
     files_changed |-> changed]

\* the content the except clause of both handlers builds
ErrorReply(sid, msg) == Reply(sid, "Error: " \o msg, <<>>, <<>>)

\* what is not done: put the message in front of the others
M_PutFirst(s, sid, role, content) ==
    [k \in DOMAIN s \cup {sid} |->
       IF k = sid
          THEN <<[role |-> role, content |-> content]>>
                  \o (IF sid \in DOMAIN s THEN s[sid] ELSE <<>>)
          ELSE s[k]]

\* sessions after a message was appended to the session sid
Appended(s, sid, role, content) ==
    [k \in DOMAIN s \cup {sid} |->
       IF k = sid
          THEN Append(IF sid \in DOMAIN s THEN s[sid] ELSE <<>>,
                      [role |-> role, content |-> content])
          ELSE s[k]]

\* the events the generator of chat_stream yields, fail being the exception
\* raised inside its try ([ok |-> TRUE] when there was none)
StreamEvents(sid, fail, resp, changed) ==
    <<[event |-> "thinking"]>>
    \o (IF fail.ok
           THEN [i \in DOMAIN resp.code_blocks |->
                   [event |-> "code", data |-> resp.code_blocks[i]]]
                \o <<[event |-> "response",
                      data |-> Reply(sid, resp.text, resp.code_blocks, changed)]>>
                \o <<[event |-> "done"]>>
        ELSE IF IsException(fail.exc)
           THEN <<[event |-> "response", data |-> ErrorReply(sid, fail.val)],
                  [event |-> "done"]>>
        ELSE <<>>)

\* chat (op = "chat") and chat_stream (op = "chat_stream") with its generator
\* run to the end: sid is request.session_id or a fresh uuid, g the outcome of
\* get_engine, r of engine.run, s of _auto_save_html, fail the exception
\* raised inside the try. "except Exception" does not catch a SystemExit,
\* which leaves the handler as it is.
Handled(op, request, sid, g, r, s, fail) ==
    /\ ncalls' = ncalls + 1
    /\ _instances' =
          IF g.ok THEN [k \in DOMAIN _instances \cup {request.engine} |->
                          IF k = request.engine THEN g.val ELSE _instances[k]]
          ELSE _instances
    /\ built' = IF ClassOf(request.engine) # "" /\ ~Cached(_instances, request.engine)
                   THEN Append(built, [by |-> "get_engine", id |-> request.engine,
                                       cls |-> ClassOf(request.engine), ok |-> g.ok])
                   ELSE built
    /\ files' = IF fail.ok THEN s.files ELSE r.files
    /\ dirs' = r.dirs
    /\ sessions' =
          IF op = "chat" /\ fail.ok
             THEN Appended(Appended(sessions, sid, "user", request.message),
                           sid, "assistant", r.out.val.text)
             ELSE Appended(sessions, sid, "user", request.message)
    /\ last' = [op |-> op, args |-> request, sid |-> sid,
                out |-> IF fail.ok
                           THEN Ret(Reply(sid, r.out.val.text, r.out.val.code_blocks,
                                          s.files_changed))
                        ELSE IF IsException(fail.exc)
                           THEN Ret(ErrorReply(sid, fail.val))
                        ELSE Raise(fail.exc, fail.val),
                status |-> IF fail.ok THEN 200 ELSE 500,
                events |-> IF op = "chat_stream"
                              THEN StreamEvents(sid, fail, r.out.val, s.files_changed)
                              ELSE <<>>,
                ran |-> r.out,
                store |-> r.store, saved |-> IF fail.ok THEN s.saved ELSE {}]
    /\ UNCHANGED <<links, engVars, wr, _engines, environ, calls, sys>>

\* engine.run as the handler reaches it, nothing when get_engine raised
RunOf(g, script, w) ==
    IF g.ok THEN RunEngine(g.val.built_by, script, w)
    ELSE [out |-> g, files |-> files, dirs |-> dirs, store |-> {}]

\* _auto_save_html as the handler reaches it, nothing when run raised
SaveOf(r) ==
    IF r.out.ok
       THEN _auto_save_html(r.out.val.code_blocks, r.out.val.files_changed,
                            r.files, r.dirs)
       ELSE [files_changed |-> <<>>, files |-> r.files, saved |-> {}]

Run3(op, request, sid, g, r) == Handled(op, request, sid, g, r, SaveOf(r), r.out)

Run2(op, request, sid, g, script) ==
    Run3(op, request, sid, g, RunOf(g, script, ScriptWrite(script)))

\* the agent of OpenHands works with the tools of its SDK, in its own terminal:
\* the scripts that call write_file or the sandbox are not its scripts
Plays(engine_id, script) == engine_id = "openhands" => script.write = <<>>

\* POST /api/chat
chat(request, script) ==
    /\ Plays(request.engine, script)
    /\ Run2("chat", request,
            IF request.session_id # "" THEN request.session_id
            ELSE "uuid" \o IntStr(ncalls + 1),
            GetEngineOut(request.engine), script)

\* POST /api/chat/stream
chat_stream(request, script) ==
    /\ Plays(request.engine, script)
    /\ Run2("chat_stream", request,
            IF request.session_id # "" THEN request.session_id
            ELSE "uuid" \o IntStr(ncalls + 1),
            GetEngineOut(request.engine), script)

\* GET /api/sessions/{session_id}
get_session(session_id) ==
    /\ ncalls' = ncalls + 1
    /\ last' = [op |-> "get_session", args |-> [session_id |-> session_id],
                out |-> Ret([session_id |-> session_id,
                             history |-> IF session_id \in DOMAIN sessions
                                            THEN sessions[session_id] ELSE <<>>])]
    /\ UNCHANGED <<fsVars, engVars, restVars>>

\* what clear_session does not do: forget every session
M_ClearsAll(s, session_id) == <<>>

\* sessions after "if session_id in sessions: del sessions[session_id]"
Deleted(s, session_id) == [k \in DOMAIN s \ {session_id} |-> s[k]]

\* DELETE /api/sessions/{session_id}
clear_session(session_id) ==
    /\ ncalls' = ncalls + 1
    /\ sessions' = Deleted(sessions, session_id)
    /\ last' = [op |-> "clear_session", args |-> [session_id |-> session_id],
                existed |-> session_id \in DOMAIN sessions,
                out |-> Ret([status |-> "cleared"])]
    /\ UNCHANGED <<fsVars, engVars, wr, _engines, _instances, built, environ, calls, sys>>

\* the engine modules the application imported: each registers its class
InitApp ==
    /\ files = BaseFiles
    /\ dirs = BaseDirs
    /\ links = NoLinks
    /\ last = NoCall
    /\ ncalls = 0
    /\ EngineOff
    /\ wr = NoWrite
    /\ _engines = <<<<"langgraph", "LangGraphEngine">>, <<"claude", "ClaudeEngine">>,
                    <<"openhands", "OpenHandsEngine">>>>
    /\ _instances = <<>>
    /\ built = <<>>
    /\ sessions = <<>>
    /\ environ \in SUBSET {"key", "provider"}
    /\ calls = <<>>
    /\ sys = StdStreams

Requests ==
    [session_id : {"s1", ""}, message : {"hi"},
     engine : {"claude", "langgraph", "openhands", "nonexistent"}]

NextApp ==
    \/ \E request \in Requests, script \in AgentScripts :
          ncalls < MaxCalls /\ chat(request, script)
    \/ \E request \in Requests, script \in AgentScripts :
          ncalls < MaxCalls /\ chat_stream(request, script)
    \/ \E session_id \in {"s1", "uuid1"} :
          ncalls < MaxCalls /\ get_session(session_id)
    \/ \E session_id \in {"s1", "uuid1"} :
          ncalls < MaxCalls /\ clear_session(session_id)

SpecApp == InitApp /\ [][NextApp]_vars

(***************************************************************************)
(* SpecSessions: the session store over longer runs, with one engine, two  *)
(* session ids and MaxRequests requests                                    *)
(***************************************************************************)
MaxRequests == 4

InitSessions == InitApp /\ environ = {"key", "provider"}

NextSessions ==
    \/ \E session_id \in {"s1", "s2"}, ends \in {"return", "RuntimeError"} :
          /\ ncalls < MaxRequests
          /\ chat([session_id |-> session_id, message |-> "hi", engine |-> "claude"],
                  [text |-> "ok", write |-> <<>>, ends |-> ends])
    \/ \E session_id \in {"s1", "s2"} :
          /\ ncalls < MaxRequests
          /\ chat_stream([session_id |-> session_id, message |-> "hi",
                          engine |-> "claude"],
                         [text |-> "ok", write |-> <<>>, ends |-> "return"])
    \/ \E session_id \in {"s1", "s2"} :
          ncalls < MaxRequests /\ get_session(session_id)
    \/ \E session_id \in {"s1", "s2"} :
          ncalls < MaxRequests /\ clear_session(session_id)

SpecSessions == InitSessions /\ [][NextSessions]_vars

(***************************************************************************)
(* SpecHtml: _auto_save_html applied to every list of at most MaxHtml code *)
(* blocks with the codes of HtmlCodes, with and without files reported by  *)
(* the engine, on a workspace where sketch.html is free or is a directory  *)
(***************************************************************************)
MaxHtml == 2

HtmlCodes ==
    {"x = 1",
     "<!DOCTYPE html>",
     "<html><title>My Art!</title>",
     "<html><TITLE> ../../etc/p </TITLE>",
     "<html><title>--</title><title>b</title>",
     "<title>t</title>",
     "<html><title>a\nb</title><title>C/d</title>",
     "<html><title>0123456789 0123456789 0123456789 012345 xyz</title>"}

RECURSIVE BlockLists(_)
BlockLists(n) ==
    IF n = 0 THEN {<<>>}
    ELSE BlockLists(n - 1)
         \cup {Append(l, [lang |-> "html", code |-> c]) :
                 l \in {s \in BlockLists(n - 1) : Len(s) = n - 1}, c \in HtmlCodes}

InitHtml ==
    /\ files = BaseFiles
    /\ dirs \in {BaseDirs, BaseDirs \cup {<<"ws", "sketch.html">>}}
    /\ links = NoLinks
    /\ \E code_blocks \in BlockLists(MaxHtml), changed \in {<<>>, <<"a">>} :
          last = [op |-> "blocks", code_blocks |-> code_blocks,
                  files_changed |-> changed]
    /\ ncalls = 0
    /\ EngineOff
    /\ RestIdle

Saved(s) ==
    /\ last.op = "blocks"
    /\ ncalls' = ncalls + 1
    /\ files' = s.files
    /\ last' = [op |-> "_auto_save_html",
                args |-> [code_blocks |-> last.code_blocks,
                          files_changed |-> last.files_changed],
                out |-> s.files_changed, saved |-> s.saved, before |-> files]
    /\ UNCHANGED <<dirs, links, engVars, restVars>>

CallSave == Saved(_auto_save_html(last.code_blocks, last.files_changed, files, dirs))

SpecHtml == InitHtml /\ [][CallSave]_vars

(***************************************************************************)
(* SpecChats: sessions served by /api/chat alone, one request after the    *)
(* other, the engine answering or raising                                  *)
(***************************************************************************)
NextChats ==
    \E session_id \in {"s1", "s2"}, message \in {"hi", "yo"},
       ends \in {"return", "RuntimeError"} :
          /\ ncalls < MaxRequests
          /\ chat([session_id |-> session_id, message |-> message, engine |-> "claude"],
                  [text |-> "ok", write |-> <<>>, ends |-> ends])

SpecChats == InitSessions /\ [][NextChats]_vars

(***************************************************************************)
(* SpecOverlap: chat and chat_stream requests on one session id that       *)
(* overlap each other and clear_session.  The handlers are coroutines of   *)
(* one event loop: a handler runs alone up to its next await.  chat runs   *)
(* from its start to "await engine.run" in one step, and from the return   *)
(* of the engine to its end in another.  chat_stream appends the user      *)
(* message and returns the EventSourceResponse; the body of                *)
(* event_generator, which reads the session, runs when the response is     *)
(* sent, after other handlers had their turn.                              *)
(***************************************************************************)
MaxOverlap == 3

OverlapId == "s1"

InitOverlap ==
    /\ files = BaseFiles
    /\ dirs = BaseDirs
    /\ links = NoLinks
    /\ last = NoCall
    /\ ncalls = 0
    /\ EngineOff
    /\ wr = NoWrite
    /\ _engines = <<>>
    /\ _instances = <<>>
    /\ built = <<>>
    /\ sessions = <<>>
    /\ environ = {"key", "provider"}
    /\ calls = [i \in 1..MaxOverlap |-> Idle]
    /\ sys = StdStreams

\* the messages of the session, none when there is no such session
Stored(s, sid) == IF sid \in DOMAIN s THEN s[sid] ELSE <<>>

\* what is not done: take the whole list
M_WholeList(messages) == messages

\* sessions[session_id][:-1]
AllButLast(messages) == SubSeq(messages, 1, Len(messages) - 1)

\* chat from its start to the await of engine.run: the user message is
\* appended and the history taken in the same step
ChatBegin(i, message) ==
    /\ calls[i].pc = "idle"
    /\ sessions' = Appended(sessions, OverlapId, "user", message)
    /\ calls' = [calls EXCEPT ![i] =
                   [pc |-> "run", op |-> "chat", message |-> message,
                    before |-> Stored(sessions, OverlapId),
                    history |-> AllButLast(sessions'[OverlapId])]]
    /\ UNCHANGED <<fsVars, last, ncalls, engVars, wr, _engines, _instances, built,
                   environ, sys>>

\* chat from the return of engine.run (or its exception) to its end
ChatEnd(i, ends) ==
    /\ calls[i].pc = "run" /\ calls[i].op = "chat"
    /\ LET fail == IF ends # "return" THEN Raise(ends, "boom")
                   ELSE IF OverlapId \notin DOMAIN sessions THEN KeyError(OverlapId)
                   ELSE Ret("")
       IN  /\ sessions' = IF fail.ok
                             THEN Appended(sessions, OverlapId, "assistant", "ok")
                             ELSE sessions
           /\ calls' = [calls EXCEPT ![i].pc = "done"]
           /\ last' = [op |-> "chat", call |-> i,
                       status |-> IF fail.ok THEN 200 ELSE 500,
                       out |-> IF fail.ok THEN Reply(OverlapId, "ok", <<>>, <<>>)
                               ELSE ErrorReply(OverlapId, fail.val)]
    /\ ncalls' = ncalls + 1
    /\ UNCHANGED <<fsVars, engVars, wr, _engines, _instances, built, environ, sys>>

\* chat_stream up to "return EventSourceResponse(event_generator())"
StreamBegin(i, message) ==
    /\ calls[i].pc = "idle"
    /\ sessions' = Appended(sessions, OverlapId, "user", message)
    /\ calls' = [calls EXCEPT ![i] =
                   [pc |-> "sent", op |-> "chat_stream", message |-> message,
                    before |-> Stored(sessions, OverlapId)]]
    /\ UNCHANGED <<fsVars, last, ncalls, engVars, wr, _engines, _instances, built,
                   environ, sys>>

\* event_generator from its start to the await of engine.run
StreamRun(i) ==
    /\ calls[i].pc = "sent"
    /\ IF OverlapId \in DOMAIN sessions
          THEN /\ calls' = [calls EXCEPT ![i] =
                              [pc |-> "run", op |-> "chat_stream",
                               message |-> calls[i].message,
                               before |-> calls[i].before,
                               history |-> AllButLast(sessions[OverlapId])]]
               /\ UNCHANGED <<last, ncalls>>
          ELSE /\ calls' = [calls EXCEPT ![i].pc = "done"]
               /\ ncalls' = ncalls + 1
               /\ last' = [op |-> "chat_stream", call |-> i, status |-> 200,
                           out |-> ErrorReply(OverlapId, KeyError(OverlapId).val)]
    /\ UNCHANGED <<fsVars, engVars, wr, _engines, _instances, built, sessions,
                   environ, sys>>

\* event_generator from the return of engine.run to its end
StreamEnd(i, ends) ==
    /\ calls[i].pc = "run" /\ calls[i].op = "chat_stream"
    /\ calls' = [calls EXCEPT ![i].pc = "done"]
    /\ ncalls' = ncalls + 1
    /\ last' = [op |-> "chat_stream", call |-> i, status |-> 200,
                out |-> IF ends = "return" THEN Reply(OverlapId, "ok", <<>>, <<>>)
                        ELSE ErrorReply(OverlapId, "boom")]
    /\ UNCHANGED <<fsVars, engVars, wr, _engines, _instances, built, sessions,
                   environ, sys>>

\* clear_session, between the steps of the other handlers
Clear ==
    /\ \E i \in DOMAIN calls : calls[i].pc \notin {"idle", "done"}
    /\ OverlapId \in DOMAIN sessions
    /\ sessions' = Deleted(sessions, OverlapId)
    /\ last' = [op |-> "clear_session", args |-> [session_id |-> OverlapId],
                existed |-> TRUE, out |-> Ret([status |-> "cleared"])]
    /\ UNCHANGED <<fsVars, ncalls, engVars, wr, _engines, _instances, built,
                   environ, calls, sys>>

NextOverlap ==
    \/ \E i \in 1..MaxOverlap : ChatBegin(i, "m" \o IntStr(i))
    \/ \E i \in 1..MaxOverlap, ends \in {"return", "RuntimeError"} : ChatEnd(i, ends)
    \/ \E i \in 1..MaxOverlap : StreamBegin(i, "m" \o IntStr(i))
    \/ \E i \in 1..MaxOverlap : StreamRun(i)
    \/ \E i \in 1..MaxOverlap, ends \in {"return", "RuntimeError"} : StreamEnd(i, ends)
    \/ Clear

SpecOverlap == InitOverlap /\ [][NextOverlap]_vars

(***************************************************************************)
(* SpecExtract: extract_code_blocks applied to every text of at most        *)
(* MaxLines lines drawn from ExtractLines                                   *)
(***************************************************************************)
MaxLines == 4

ExtractLines == {"~~~", "~~~js", " ~~~ py ", " y ", "x", ""}

RECURSIVE LinesUpTo(_)
LinesUpTo(n) ==
    IF n = 0 THEN {<<>>}
    ELSE LinesUpTo(n - 1)
         \cup {Append(ls, l) : ls \in {s \in LinesUpTo(n - 1) : Len(s) = n - 1},
                               l \in ExtractLines}

InitExtract ==
    /\ files = BaseFiles
    /\ dirs = BaseDirs
    /\ links = NoLinks
    /\ \E ls \in LinesUpTo(MaxLines) : last = [op |-> "text", text |-> JoinLines(ls)]
    /\ ncalls = 0
    /\ EngineOff
    /\ RestIdle

CallExtract ==
    /\ last.op = "text"
    /\ ncalls' = ncalls + 1
    /\ last' = [op |-> "extract_code_blocks", args |-> [text |-> last.text],
                out |-> Ret(extract_code_blocks(last.text))]
    /\ UNCHANGED <<fsVars, engVars, restVars>>

SpecExtract == InitExtract /\ [][CallExtract]_vars

(***************************************************************************)
(* Claims                                                                  *)
(***************************************************************************)
\* C1: for every path p and root r, _resolve(p, r) returns a path inside the
\* resolved root directory or raises PermissionError; it never returns a path
\* outside the root.
C1_ResolveContained ==
    (last.op = "_resolve" /\ last.out.ok) => Inside(last.out.val, last.root)


\* C2: every File Store operation checks containment before it touches the
\* file system: no operation reads, writes or reports a file whose resolved
\* location is outside the workspace root.
C2_OperationsContained ==
    last.op \in {"read_file", "write_file", "edit_file", "list_files",
                 "glob_files", "grep_files"}
        => \A loc \in last.touched : Inside(loc, last.root)

\* C5: execute_python_code(code) returns a string for every outcome of the
\* executed code, normal completion or any error or exit raised by the code;
\* no exception escapes to the caller and the host process is not terminated.
C5_SandboxAlwaysReturns ==
    last.op = "execute_python_code" => last.out.ok

\* C3: the tool-use loop always terminates: at most 20 model requests are sent
\* in one invocation, the loop never waits to send a 21st, and the invocation
\* ends by returning an EngineResponse that carries the text last produced,
\* never by raising, whatever tools the model requests on each turn.
C3_LoopTerminates ==
    /\ turn <= max_turns
    /\ pc = "request" => turn < max_turns
    /\ pc # "raised"
    /\ pc = "returned" => response.kind = "EngineResponse" /\ response.text = text

\* C4: every failure of a dispatched tool (path escape, file not found,
\* old_string not found, invalid regex, missing argument, failure inside the
\* executed code) comes back from _run_tool as a result string that starts
\* with "Error: ", and the loop goes on; no tool failure leaves the loop as
\* an exception.
C4_FailuresBecomeErrorText ==
    (/\ last.op = "_run_tool"
     /\ \/ ~last.raw.ok
        \/ last.name = "execute_python_code" /\ last.args["code"].ends # "return")
        => /\ last.out.ok
           /\ StartsWith(last.out.val, "Error: ")
           /\ pc = "content"

\* C6: a tool call whose name is not one of the seven tool names yields the
\* result "Unknown tool", leaves files_changed and the file system as they
\* were, and its result is appended to tool_results like any other, so that
\* the turn does not end the loop: when the content is done the next request
\* is what comes, unless this was the last turn range(max_turns) allows.
C6_UnknownToolGoesOn ==
    [][/\ (pc = "content" /\ nblk' = nblk + 1 /\ last'.op = "_run_tool"
                /\ last'.name \notin ToolNames)
            => /\ last'.out = Ret("Unknown tool")
               /\ UNCHANGED <<files, dirs, links, files_changed>>
               /\ tool_results' = Append(tool_results,
                                         [type |-> "tool_result",
                                          tool_use_id |-> <<turn, nblk'>>,
                                          content |-> "Unknown tool"])
               /\ pc' = "content"
       /\ (pc = "content" /\ pc' \notin {"content", "raised"}
                /\ \E i \in DOMAIN tool_results : tool_results[i].content = "Unknown tool")
            => IF turn < max_turns THEN pc' = "request" ELSE pc' = "returned"
      ]_vars

C6_Witness ==
    /\ pc = "request"
    /\ turn >= 1
    /\ \E i \in DOMAIN tool_results : tool_results[i].content = "Unknown tool"

\* C7: the text ClaudeEngine.run returns is the text of the last model turn
\* that contained text (its last text block), whether or not that turn also
\* requested tools and whether or not later turns had text; it is "" exactly
\* when no turn had text (said is "" until a turn has a text block, and a
\* text block is not empty).
C7_ReturnsLastText ==
    pc = "returned" => response.text = said

C7_Witness ==
    /\ pc = "returned"
    /\ turn >= 3
    /\ turn_text = <<>>
    /\ response.text = "hi"

\* C8, as the spec states it: every write_file and every edit_file tool call
\* appends its path argument to files_changed.
C8_EveryCallRecorded ==
    (/\ last.op = "_run_tool"
     /\ last.name \in {"write_file", "edit_file"}
     /\ "path" \in DOMAIN last.args)
        => files_changed = Append(last.changed_before, last.args["path"])

\* C8, amended: a write_file or edit_file tool call that completes without
\* error appends its path argument to files_changed, once, whether or not
\* the bytes of the file changed; a call that fails (path escape, missing
\* file, old_string not found, missing argument) appends nothing.
C8_CompletedCallRecorded ==
    (last.op = "_run_tool" /\ last.name \in {"write_file", "edit_file"})
        => files_changed = IF last.raw.ok
                              THEN Append(last.changed_before, last.args["path"])
                              ELSE last.changed_before

\* a write that leaves the bytes as they were is recorded
C8_Witness ==
    /\ last.op = "_run_tool"
    /\ last.name = "write_file"
    /\ last.raw.ok
    /\ files = BaseFiles
    /\ files_changed = <<"a">>

RECURSIVE CompletedPaths(_)
\* the paths of the calls of a log that completed, in the order of the log
CompletedPaths(log) ==
    IF log = <<>> THEN <<>>
    ELSE (IF Head(log).ok THEN <<Head(log).path>> ELSE <<>>)
         \o CompletedPaths(Tail(log))

\* C9: during one invocation files_changed is append-only and is never
\* deduplicated or reordered: at every point it lists the paths in the order
\* of the write_file and edit_file calls that put them there, a path appears
\* at most as many times as write_file or edit_file was called with it, and
\* read_file, list_files, glob_files, grep_files and execute_python_code
\* calls add nothing to it.
C9_ChangeListAppendOnly ==
    /\ files_changed = CompletedPaths(wlog)
    /\ last.op = "_run_tool"
         => /\ IsPrefix(last.changed_before, files_changed)
            /\ last.name \notin {"write_file", "edit_file"}
                 => files_changed = last.changed_before

\* the same path written twice is listed twice
C9_Witness ==
    /\ files_changed = <<"a", "a">>
    /\ pc = "content"

\* C10: when old_string occurs in the file, edit_file replaces exactly its
\* first occurrence with new_string and leaves every other character of the
\* file, later occurrences of old_string included, as it was.
C10_FirstOccurrenceOnly ==
    (last.op = "edit_file" /\ last.out.ok)
        => LET b == last.before
               old == last.args.old_string
               new == last.args.new_string
               Occurs(i) == i + Len(old) - 1 <= Len(b) /\ SubSeq(b, i, i + Len(old) - 1) = old
           IN  \E i \in 1..(Len(b) + 1) :
                  /\ Occurs(i)
                  /\ \A j \in 1..(i - 1) : ~Occurs(j)
                  /\ files[EditLoc] = SubSeq(b, 1, i - 1) \o new
                                        \o SubSeq(b, i + Len(old), Len(b))

\* the example of the claim, with a for c: aXbXa becomes aYbXa
C10_Witness ==
    /\ last.op = "edit_file"
    /\ last.out.ok
    /\ last.before = "aXbXa"
    /\ last.args.old_string = "X"
    /\ last.args.new_string = "Y"
    /\ files[EditLoc] = "aYbXa"

\* C11: edit_file fails with FileNotFoundError when the target is not an
\* existing regular file, and with another type of error, ValueError, when
\* old_string is not a substring of the content the file has; in both cases,
\* as for any failure, no file or directory is created or modified.
C11_EditFailures ==
    [][(last'.op = "edit_file" /\ ncalls' = ncalls + 1)
          => LET p == _resolve(last'.args.path, Root)
                 old == last'.args.old_string
                 Occurs(t) == \E i \in 1..(Len(t) + 1) :
                                 /\ i + Len(old) - 1 <= Len(t)
                                 /\ SubSeq(t, i, i + Len(old) - 1) = old
             IN  /\ (p.ok /\ p.val \notin DOMAIN files)
                      => ~last'.out.ok /\ last'.out.exc = "FileNotFoundError"
                 /\ (p.ok /\ p.val \in DOMAIN files /\ ~Occurs(files[p.val]))
                      => ~last'.out.ok /\ last'.out.exc = "ValueError"
                 /\ ~last'.out.ok => UNCHANGED <<files, dirs, links>>
      ]_vars

\* both failures have happened, one after the other: a directory as the
\* target, then an old_string the file does not hold
C11_Witness ==
    /\ ncalls = 2
    /\ last.op = "edit_file"
    /\ last.args.path = "a"
    /\ ~last.out.ok
    /\ last.out.exc = "ValueError"
    /\ files = FsFiles


\* what read_file returns for path when the file there is absent (<<>>) or
\* holds the text c[1]
ReadOutcome(path, c) ==
    IF c = <<>>
       THEN Raise("FileNotFoundError", "File not found: " \o path)
       ELSE LET lines == SplitLines(c[1]) IN
            Ret("--- " \o path \o " ---\n"
                \o JoinLines([i \in 1..Len(lines) |-> NumberedLine(i, lines[i])]))

\* C12: write_file overwrites atomically: a read_file that happens while a
\* write_file to the same location is in progress returns what it would
\* return for the complete previous content or for the complete new content,
\* never the result for an empty or partially written file.
C12_AtomicOverwrite ==
    IF last.op = "read_file"
       THEN (/\ last.during.stage = "open"
             /\ _resolve(last.args.path, Root).ok
             /\ _resolve(last.args.path, Root).val = last.during.loc)
               => last.out \in {ReadOutcome(last.args.path, last.during.old),
                                ReadOutcome(last.args.path,
                                            <<last.during.content>>)}
       ELSE TRUE


\* C13: after write_file(p, c, root) has succeeded, creating the missing parent
\* directories, read_file(p, root) returns a header line naming p followed by
\* the lines of c in order, each behind its 1-based line number, so that
\* taking away the header and the prefixes gives back exactly the lines of c.
C13_WriteReadRoundTrip ==
    [][(/\ last.op = "write_file" /\ last.out.ok
        /\ last'.op = "read_file" /\ ncalls' = ncalls + 1
        /\ last'.args.path = last.args.path)
          => /\ last'.out.ok
             /\ Ancestors(_resolve(last.args.path, Root).val) \subseteq dirs
             /\ LET got == SplitLines(last'.out.val)
                    want == SplitLines(last.args.content)
                IN  /\ Len(got) = Len(want) + 1
                    /\ got[1] = "--- " \o last.args.path \o " ---"
                    /\ \A k \in 1..Len(want) :
                          LET prefix == PadLeft(IntStr(k), 4) \o " | " IN
                          /\ StartsWith(got[k + 1], prefix)
                          /\ SubSeq(got[k + 1], Len(prefix) + 1, Len(got[k + 1]))
                                = want[k]
      ]_vars

C13_Witness ==
    /\ ncalls = 2 /\ last.op = "read_file" /\ last.args.path = "d/N/c"
    /\ last.out.ok /\ <<"ws", "d", "N">> \in dirs
    /\ files[<<"ws", "d", "N", "c">>] = "p\n\n q"


\* C14: read_file fails with FileNotFoundError whenever the resolved path is
\* not a regular file (nothing is there, or a directory is), and read_file
\* creates and modifies nothing in the workspace, whether it succeeds or
\* fails.
C14_ReadMissingFails ==
    [][(last'.op = "read_file" /\ ncalls' = ncalls + 1)
          => LET p == _resolve(last'.args.path, Root) IN
             /\ (p.ok /\ p.val \notin DOMAIN files)
                   => ~last'.out.ok /\ last'.out.exc = "FileNotFoundError"
             /\ UNCHANGED <<files, dirs, links>>
      ]_vars

C14_Witness ==
    /\ ncalls = 2 /\ last.op = "read_file" /\ last.args.path = "."
    /\ ~last.out.ok /\ last.out.exc = "FileNotFoundError"
    /\ <<"ws", "d", "N", "c">> \in DOMAIN files


\* Reading a listing back: the lines of the last list_files result, the depth
\* of a line (the number of four-character indents before its branch marker),
\* the name it shows, and whether it shows a directory.
ListingLines == SplitLines(last.out.val)

RECURSIVE LineDepth(_)
LineDepth(line) ==
    IF Len(line) >= 4 /\ SubSeq(line, 1, 4) \in {ExtMid, ExtLast}
       THEN 1 + LineDepth(SubSeq(line, 5, Len(line)))
       ELSE 0

LineIsDir(line) == Char(line, Len(line)) = "/"

LineName(line) ==
    SubSeq(line, 4 * (LineDepth(line) + 1) + 1,
           IF LineIsDir(line) THEN Len(line) - 1 ELSE Len(line))

\* lines i < j show two entries of the same directory
Siblings(i, j) ==
    /\ i < j
    /\ LineDepth(ListingLines[i]) = LineDepth(ListingLines[j])
    /\ \A k \in i..j : LineDepth(ListingLines[k]) >= LineDepth(ListingLines[i])

\* every two entries of one directory are in order: the group named first
\* (directories if dirsFirst, files otherwise) before the other, and within a
\* group by lower-cased name
ListingOrdered(dirsFirst) ==
    (last.op = "list_files" /\ last.out.ok)
       => \A i, j \in 2..Len(ListingLines) :
             Siblings(i, j)
                => LET a == ListingLines[i]
                       b == ListingLines[j]
                   IN  IF LineIsDir(a) # LineIsDir(b)
                          THEN LineIsDir(a) = dirsFirst
                          ELSE ~StrLess(Lower(LineName(b)), Lower(LineName(a)))

\* C15 as stated: in list_files output, at every directory level (recursive or
\* not) the entries are ordered with all files first and then all directories,
\* each group in case-insensitive alphabetical order of name.
C15_FilesFirst == ListingOrdered(FALSE)

\* C15 as the code has it: at every directory level (recursive or not) the
\* entries are ordered with all directories first and then all files, each
\* group in case-insensitive alphabetical order of name.
C15_DirectoriesFirst == ListingOrdered(TRUE)

C15_Witness ==
    /\ ncalls = 2 /\ last.op = "list_files" /\ last.out.ok
    /\ last.args.path = "." /\ last.args.recursive
    /\ <<"ws", "d", "N", "c">> \in DOMAIN files
    /\ \E i, j \in 2..Len(ListingLines) :
          /\ Siblings(i, j) /\ LineDepth(ListingLines[i]) = 1
          /\ LineIsDir(ListingLines[i]) /\ ~LineIsDir(ListingLines[j])


RECURSIVE GlobMatches(_, _)
\* whether the root-relative path parts matches the pattern parts pparts: a
\* "**" part stands for any number of directories, any other part for one
\* name, "*" in it for any characters
GlobMatches(parts, pparts) ==
    IF pparts = <<>> THEN parts = <<>>
    ELSE IF Head(pparts) = "**"
        THEN \E k \in 1..(Len(parts) + 1) :
                GlobMatches(SubSeq(parts, k, Len(parts)), Tail(pparts))
    ELSE /\ parts # <<>>
         /\ Fnmatch(Head(parts), Head(pparts))
         /\ GlobMatches(Tail(parts), Tail(pparts))

\* C16: glob_files returns exactly the regular files under the root that match
\* the pattern (directories are never listed), each once, as root-relative
\* paths in sorted order joined by newlines; when nothing matches it returns
\* the sentinel "(no matches)" and never an empty string.
C16_GlobExact ==
    (last.op = "glob_files" /\ last.out.ok)
       => LET root_p == RootParts(last.root)
              listed == IF last.out.val = NoMatches THEN <<>>
                        ELSE SplitLines(last.out.val)
              loc(k) == RealLoc(root_p \o Split(listed[k]))
          IN  /\ last.out.val # ""
              /\ \A k \in 1..Len(listed) :
                    /\ loc(k) \in DOMAIN files
                    /\ Inside(loc(k), last.root)
              /\ \A j, k \in 1..Len(listed) :
                    j < k => /\ loc(j) # loc(k)
                             /\ ~PartsLess(Split(listed[k]), Split(listed[j]))
              /\ \A f \in DOMAIN files :
                    (/\ Inside(f, last.root)
                     /\ GlobMatches(SubSeq(f, Len(root_p) + 1, Len(f)),
                                    Split(last.args.pattern)))
                       => \E k \in 1..Len(listed) : loc(k) = f


\* the entries of the matching lines of one file, in line order
EntriesOf(rel, lines, pattern) ==
    LET hits == SelectSeq([i \in 1..Len(lines) |-> i],
                          LAMBDA i : Contains(lines[i], pattern))
    IN  [k \in 1..Len(hits) |->
            rel \o ":" \o IntStr(hits[k]) \o ": " \o Strip(lines[hits[k]])]

RECURSIVE EntriesFrom(_, _, _, _)
\* the entries of the files fs[k], fs[k + 1], ... in that order
EntriesFrom(root_p, fs, k, pattern) ==
    IF k > Len(fs) THEN <<>>
    ELSE LET loc == RealLoc(root_p \o fs[k]) IN
         (IF loc \in DOMAIN files
             THEN EntriesOf(JoinRel(fs[k]), SplitLines(files[loc]), pattern)
             ELSE <<>>)
         \o EntriesFrom(root_p, fs, k + 1, pattern)

\* C17: grep_files visits the matching files in sorted order and the lines in
\* line order, emits one "path:line_number: trimmed_line" entry per matching
\* line, and stops as soon as max_matches entries have been collected, even
\* mid-file: for every max_matches value the result never has more than
\* max_matches entries, and it is the "(no matches)" sentinel when no entry is
\* emitted.
C17_GrepBounded ==
    (last.op = "grep_files" /\ last.out.ok)
       => LET root_p == RootParts(last.root)
              max_matches == last.args.max_matches
              every == EntriesFrom(root_p,
                                   SortPaths(PathGlob(root_p,
                                                      last.args.glob_pattern).val),
                                   1, last.args.pattern)
              n == IF Len(every) < max_matches THEN Len(every) ELSE max_matches
              emitted == IF last.out.val = NoMatches THEN <<>>
                         ELSE SplitLines(last.out.val)
          IN  /\ Len(emitted) <= max_matches
              /\ emitted = SubSeq(every, 1, n)
              /\ last.out.val # ""


\* C18: grep_files with a pattern that is not a syntactically valid regular
\* expression fails with the invalid-pattern error, a ValueError, before any
\* file is read, and returns no partial matches.
C18_InvalidRegexFails ==
    [][(/\ last'.op = "grep_files" /\ ncalls' = ncalls + 1
        /\ last'.args.pattern \in MalformedRegexes)
          => /\ ~last'.out.ok
             /\ last'.out.exc = "ValueError"
             /\ last'.out.val = "Invalid regex: " \o last'.args.pattern
             /\ last'.touched = {}
             /\ UNCHANGED <<files, dirs, links>>
      ]_vars

C18_Witness ==
    /\ ncalls = 1 /\ last.op = "grep_files" /\ last.args.pattern = "("
    /\ last.args.glob_pattern = "**/*" /\ last.out.exc = "ValueError"


EndsWith(s, t) == Len(t) <= Len(s) /\ SubSeq(s, Len(s) - Len(t) + 1, Len(s)) = t

\* s is made of a part that holds a, followed by a part that ends with b
HoldsThenEnds(s, a, b) ==
    /\ EndsWith(s, b)
    /\ Contains(SubSeq(s, 1, Len(s) - Len(b)), a)

\* C19: when the code runs to its end, execute_python_code returns the
\* captured stdout when it is not empty, the captured stderr when it is not
\* empty (both, stdout first, when neither is), and the sentinel
\* "Code executed successfully (no output)." exactly when both are empty; when
\* the code raises an error (an exception of the Exception hierarchy) it
\* returns what was printed to stdout before the failure followed by the
\* error trace.
C19_SandboxOutput ==
    last.op = "execute_python_code"
       => LET out == last.code.stdout
              err == last.code.stderr
              val == last.out.val
          IN  /\ last.code.ends = "return"
                   => /\ last.out.ok
                      /\ (val = "Code executed successfully (no output).")
                            <=> (out = "" /\ err = "")
                      /\ (out # "" /\ err = "") => EndsWith(val, out)
                      /\ (out = "" /\ err # "")
                            => EndsWith(val, err) /\ val = "Stderr:\n" \o err
                      /\ (out # "" /\ err # "") => HoldsThenEnds(val, out, err)
              /\ (last.code.ends # "return" /\ IsException(last.code.ends))
                   => /\ last.out.ok
                      /\ HoldsThenEnds(val, out, format_exc(last.code.ends))

C19_Witness ==
    /\ ncalls = 2 /\ last.op = "execute_python_code" /\ last.out.ok
    /\ last.code.ends = "ZeroDivisionError"
    /\ last.code.stdout = "a\nb\n" /\ last.code.stderr = "e\n"


\* C20 as stated: register(id, constructor) overwrites any earlier
\* registration of id and the last writer wins: after any sequence of register
\* and get_engine calls, get_engine(id) returns an instance built by the
\* constructor most recently registered for id.
C20_LastWriterWins ==
    (last.op = "get_engine" /\ last.out.ok)
       => \E i \in DOMAIN _engines :
             _engines[i] = <<last.args.engine_id, last.out.val.built_by>>

\* C20 as the code has it: register(id, constructor) overwrites any earlier
\* registration of id in the table of constructors, where the last writer
\* wins, and touches no instance; get_engine(id) returns the instance cached
\* for id when there is one, whatever has been registered since, and
\* otherwise an instance it builds with the constructor most recently
\* registered for id, which it caches.
C20_CachedInstanceWins ==
    [][/\ (last'.op = "register" /\ ncalls' = ncalls + 1)
            => /\ \A i \in DOMAIN _engines' :
                     _engines'[i][1] = last'.args.engine_id
                        => _engines'[i][2] = last'.args.engine_class
               /\ \E i \in DOMAIN _engines' :
                     _engines'[i][1] = last'.args.engine_id
               /\ UNCHANGED _instances
       /\ (last'.op = "get_engine" /\ ncalls' = ncalls + 1 /\ last'.out.ok)
            => LET id == last'.args.engine_id IN
               /\ id \in DOMAIN _instances => last'.out.val = _instances[id]
               /\ id \notin DOMAIN _instances
                     => /\ \E i \in DOMAIN _engines :
                              _engines[i] = <<id, last'.out.val.built_by>>
                        /\ last'.out.val.call = ncalls'
               /\ _instances'[id] = last'.out.val
               /\ UNCHANGED _engines
      ]_vars

C20_Witness ==
    /\ ncalls = 4 /\ last.op = "get_engine" /\ last.out.ok
    /\ last.args.engine_id = "claude"
    /\ last.out.val = [built_by |-> "ClaudeEngine", call |-> 2]
    /\ _engines = <<<<"claude", "CrewAIEngine">>>>


\* Two constructor calls made by get_engine for one engine id with no
\* clear_instances between them, the first of them a successful one if
\* afterSuccess
ConstructedAgain(afterSuccess) ==
    \E i, j \in DOMAIN built :
       /\ i < j
       /\ built[i].by = "get_engine" /\ built[j].by = "get_engine"
       /\ built[i].id = built[j].id
       /\ afterSuccess => built[i].ok
       /\ \A k \in i..j : built[k].by # "clear_instances"

\* a get_engine call that finds engine_id cached returns the cached instance,
\* whatever keyword arguments it is given, and nothing but clear_instances
\* takes an instance out of the cache or puts another in its place
SameInstanceInSpan ==
    /\ (last'.op = "get_engine" /\ ncalls' = ncalls + 1
        /\ last'.args.engine_id \in DOMAIN _instances)
          => /\ last'.out = Ret(_instances[last'.args.engine_id])
             /\ UNCHANGED _instances
    /\ (last'.op = "get_engine" /\ ncalls' = ncalls + 1 /\ last'.out.ok)
          => _instances'[last'.args.engine_id] = last'.out.val
    /\ last'.op # "clear_instances"
          => \A k \in DOMAIN _instances :
                k \in DOMAIN _instances' /\ _instances'[k] = _instances[k]

\* C21 as stated: get_engine(id) constructs the engine on first access and
\* caches it: between two clear_instances calls the constructor for a
\* registered id is invoked by get_engine at most once, and all get_engine(id)
\* calls in that span return the same instance, whatever keyword arguments
\* later calls pass.
C21_ConstructorAtMostOnce ==
    [][~ConstructedAgain(FALSE)' /\ SameInstanceInSpan]_vars

\* C21 as the code has it: between two clear_instances calls the constructor
\* for a registered id succeeds at most once under get_engine, and is not
\* invoked again after it has succeeded (a constructor call that raises caches
\* nothing, and the next get_engine(id) invokes the constructor again); all
\* get_engine(id) calls that return in that span return the same instance,
\* whatever keyword arguments later calls pass.
C21_ConstructedOnce ==
    [][~ConstructedAgain(TRUE)' /\ SameInstanceInSpan]_vars

C21_Witness ==
    /\ last.op = "get_engine" /\ last.out.ok
    /\ last.args.kwargs = {"workspace_path"}
    /\ last.out.val.call < ncalls
    /\ \E i \in DOMAIN built : built[i].by = "get_engine" /\ ~built[i].ok


\* C22: get_engine(id) for an id that was never registered fails with the
\* unknown-engine error, a ValueError whose message starts with "Unknown
\* engine" and lists every currently registered id, and leaves both the
\* registration table and the instance cache unchanged.
C22_UnknownEngineFails ==
    [][(/\ last'.op = "get_engine" /\ ncalls' = ncalls + 1
        /\ \A i \in DOMAIN _engines : _engines[i][1] # last'.args.engine_id)
          => /\ ~last'.out.ok
             /\ last'.out.exc = "ValueError"
             /\ StartsWith(last'.out.val, "Unknown engine")
             /\ Contains(last'.out.val, last'.args.engine_id)
             /\ \A i \in DOMAIN _engines :
                   Contains(last'.out.val, "'" \o _engines[i][1] \o "'")
             /\ UNCHANGED <<_engines, _instances>>
      ]_vars

C22_Witness ==
    /\ last.op = "get_engine" /\ last.args.engine_id = "nonexistent"
    /\ last.out.val = "Unknown engine: nonexistent. Available: ['crewai', 'claude']"
    /\ DOMAIN _instances = {"claude"}


\* C23: list_engines() returns exactly one {id, name, supports_models} entry
\* per registered id and never raises: when constructing an engine fails, its
\* entry falls back to the class-level name and supports_models; list_engines
\* never adds to or changes the instance cache used by get_engine.
C23_ListEnginesSafe ==
    [][(last'.op = "list_engines" /\ ncalls' = ncalls + 1)
          => /\ last'.out.ok
             /\ Len(last'.out.val) = Len(_engines)
             /\ \A i \in DOMAIN _engines :
                   /\ last'.out.val[i].id = _engines[i][1]
                   /\ last'.out.val[i].name = ClassAttrs(_engines[i][2]).name
                   /\ last'.out.val[i].supports_models
                         = ClassAttrs(_engines[i][2]).supports_models
             /\ \A i, j \in DOMAIN _engines :
                   i # j => last'.out.val[i].id # last'.out.val[j].id
             /\ UNCHANGED <<_instances, _engines>>
      ]_vars

C23_Witness ==
    /\ last.op = "list_engines" /\ Len(last.out.val) = 2
    /\ \E i \in DOMAIN built : built[i].by = "list_engines" /\ ~built[i].ok
    /\ DOMAIN _instances = {"claude"}


\* what the engine class needs and the process does not have
Lacks(engine_class) ==
    IF engine_class = "ClaudeEngine" THEN "key" \notin environ
    ELSE environ # {"key", "provider"}

\* C24: an engine whose underlying dependency or credential is missing still
\* returns from run a well-formed EngineResponse (explanatory text, no code
\* blocks, no changed files) and never raises past its own boundary; this
\* holds for every registered engine, including ClaudeEngine and
\* LangGraphEngine as well as OpenHandsEngine.
C24_EnginesNeverRaise ==
    (/\ last.op \in {"chat", "chat_stream"}
     /\ ClassOf(last.args.engine) # ""
     /\ Lacks(ClassOf(last.args.engine)))
       => /\ last.ran.ok
          /\ last.ran.val.kind = "EngineResponse"
          /\ last.ran.val.text # ""
          /\ last.ran.val.code_blocks = <<>>
          /\ last.ran.val.files_changed = <<>>

\* the part of C24 the code keeps: OpenHandsEngine returns an explanation
C24_OpenHandsExplains ==
    (/\ last.op \in {"chat", "chat_stream"}
     /\ last.args.engine = "openhands"
     /\ Lacks("OpenHandsEngine"))
       => /\ last.ran.ok
          /\ last.ran.val.code_blocks = <<>>
          /\ last.ran.val.files_changed = <<>>


\* the reply of a handler names an error: its text starts with "Error:" and it
\* holds no code block and no changed file
IsErrorReply(out) ==
    /\ out.ok
    /\ StartsWith(out.val.response, "Error:")
    /\ out.val.code_blocks = <<>>
    /\ out.val.files_changed = <<>>

\* C25: every failed invocation through /api/chat or /api/chat/stream (unknown
\* engine id, or any exception raised by the engine or while recording the
\* reply) yields a structurally valid response whose text starts with
\* "Error:" and whose code_blocks and files_changed are empty lists, never a
\* raw exception; the streaming endpoint still emits its final "done" event.
C25_FailuresReported ==
    (last.op \in {"chat", "chat_stream"} /\ ~last.ran.ok)
       => /\ IsErrorReply(last.out)
          /\ last.op = "chat_stream"
                => /\ last.events # <<>>
                   /\ last.events[Len(last.events)].event = "done"
                   /\ last.events[Len(last.events) - 1]
                         = [event |-> "response", data |-> last.out.val]

\* the part of C25 the code keeps: what "except Exception" catches is reported
C25_ExceptionsReported ==
    (last.op \in {"chat", "chat_stream"} /\ ~last.ran.ok /\ IsException(last.ran.exc))
       => /\ IsErrorReply(last.out)
          /\ last.out.val.response = "Error: " \o last.ran.val
          /\ last.op = "chat_stream"
                => last.events[Len(last.events)].event = "done"


\* the lines of the text extract_code_blocks was called with
TextLines == SplitNl(last.args.text)

IsFenceLine(l) == StartsWith(Strip(l), Fence)

\* the indices of the fence lines of the text
FenceLines == {i \in DOMAIN TextLines : IsFenceLine(TextLines[i])}

\* the index of the k-th fence line
KthFence(k) ==
    CHOOSE i \in FenceLines : Cardinality({j \in FenceLines : j <= i}) = k

\* the tag written on a fence line
TagOf(l) == Strip(LStripChar(Strip(l), FenceChar))

\* the block the text gives between fence line a and line b
BlockBetween(a, b) ==
    [language |-> IF TagOf(TextLines[a]) = "" THEN "python" ELSE TagOf(TextLines[a]),
     code |-> JoinLines(SubSeq(TextLines, a + 1, b - 1))]

\* C26: extract_code_blocks emits, for each opening fence line paired with the
\* next fence line, exactly one block whose language is the tag written on
\* the opening line ("python" when empty) and whose code is the lines
\* strictly between the two fences joined by newlines without trimming;
\* blocks come out in order of first appearance, and text without any fence
\* line yields an empty list.
C26_PairedBlocks ==
    last.op = "extract_code_blocks"
       => /\ last.out.ok
          /\ Len(last.out.val) \in {Cardinality(FenceLines) \div 2,
                                    (Cardinality(FenceLines) + 1) \div 2}
          /\ \A k \in 1..(Cardinality(FenceLines) \div 2) :
                last.out.val[k] = BlockBetween(KthFence(2 * k - 1), KthFence(2 * k))
          /\ FenceLines = {} => last.out.val = <<>>

C26_Witness ==
    /\ last.op = "extract_code_blocks"
    /\ last.args.text = "~~~\n~~~\n~~~js\n~~~"
    /\ last.out.val = <<[language |-> "python", code |-> ""],
                        [language |-> "js", code |-> ""]>>

\* C27 as stated: whenever the text ends inside an open block,
\* extract_code_blocks still emits one final block holding the lines
\* accumulated since that fence, with the language tag captured at the
\* opening fence.
C27_OpenBlockEmitted ==
    (last.op = "extract_code_blocks" /\ Cardinality(FenceLines) % 2 = 1)
       => /\ Len(last.out.val) = (Cardinality(FenceLines) + 1) \div 2
          /\ last.out.val[Len(last.out.val)]
                = BlockBetween(KthFence(Cardinality(FenceLines)), Len(TextLines) + 1)

\* C27 as the code has it: when the text ends inside an open block and at
\* least one line follows the opening fence, extract_code_blocks emits one
\* final block holding the lines after that fence, with the language tag of
\* the fence; when the opening fence is the last line, no block is emitted
\* for it.
C27_OpenBlockWithLines ==
    (last.op = "extract_code_blocks" /\ Cardinality(FenceLines) % 2 = 1)
       => IF KthFence(Cardinality(FenceLines)) < Len(TextLines)
             THEN /\ Len(last.out.val) = (Cardinality(FenceLines) + 1) \div 2
                  /\ last.out.val[Len(last.out.val)]
                        = BlockBetween(KthFence(Cardinality(FenceLines)),
                                       Len(TextLines) + 1)
             ELSE Len(last.out.val) = Cardinality(FenceLines) \div 2

C27_Witness ==
    /\ last.op = "extract_code_blocks"
    /\ last.args.text = "~~~\n~~~\n ~~~ py \n y "
    /\ last.out.val = <<[language |-> "python", code |-> ""],
                        [language |-> "py", code |-> " y "]>>


\* C28: the workspace directory tree is mutated only through the File Store
\* operations write_file and edit_file: during the handling of a chat request
\* no other code path (API layer post-processing, engine code) creates or
\* overwrites a file in the workspace.
C28_OnlyFileStoreWrites ==
    [][\A loc \in DOMAIN files' :
          (loc \notin DOMAIN files \/ files'[loc] # files[loc])
             => /\ last'.op \in {"chat", "chat_stream"}
                /\ loc \in last'.store
      ]_vars

\* the part of C28 the code keeps: what an engine with the shared file tools
\* writes, it writes through the File Store
C28_EnginesUseFileStore ==
    [][\A loc \in DOMAIN files' :
          (loc \notin DOMAIN files \/ files'[loc] # files[loc])
             => /\ last'.op \in {"chat", "chat_stream"}
                /\ loc \in last'.store \cup last'.saved
      ]_vars


\* C29: after DELETE /api/sessions/{id}, GET /api/sessions/{id} returns an
\* empty history, whatever chat requests completed on that session before;
\* deleting an id with no stored session succeeds and changes no other
\* session.
C29_DeleteThenEmpty ==
    [][/\ (last'.op = "clear_session" /\ ncalls' = ncalls + 1)
          => /\ last'.out.ok
             /\ last'.out.val = [status |-> "cleared"]
             /\ DOMAIN sessions' = DOMAIN sessions \ {last'.args.session_id}
             /\ \A k \in DOMAIN sessions' : sessions'[k] = sessions[k]
       /\ (/\ last.op = "clear_session"
           /\ last'.op = "get_session" /\ ncalls' = ncalls + 1
           /\ last'.args.session_id = last.args.session_id)
          => last'.out = Ret([session_id |-> last.args.session_id, history |-> <<>>])
      ]_vars

C29_Witness ==
    /\ last.op = "clear_session" /\ last.args.session_id = "s1" /\ last.existed
    /\ DOMAIN sessions = {"s2"}
    /\ Len(sessions["s2"]) = 2


\* C30: within one model turn the requested tool calls are executed one at a
\* time, in the order the model requested them, so each call observes the
\* file-system effects of all earlier calls of the same turn (a write
\* followed by a read of the same path returns the written content); the
\* tool-result batch appended after the turn has exactly one result per tool
\* call, in the same order and with the matching call id.
C30_ToolCallsInOrder ==
    [][/\ (last'.op = "_run_tool" /\ nblk' = nblk + 1 /\ last'.out.ok)
          => tool_results'
                = Append(tool_results, [type |-> "tool_result",
                                        tool_use_id |-> <<turn, nblk + 1>>,
                                        content |-> last'.out.val])
       /\ (/\ last.op = "_run_tool" /\ last.name = "write_file" /\ last.raw.ok
           /\ last'.op = "_run_tool" /\ nblk' = nblk + 1
           /\ last'.name = "read_file" /\ "path" \in DOMAIN last'.args
           /\ last'.args.path = last.args.path)
          => last'.out.val = "--- " \o last.args.path \o " ---\n   1 | "
                                \o last.args.content
       /\ pc' = "content"
          => /\ Len(tool_results') = nblk' - Len(turn_text')
             /\ \A i \in DOMAIN tool_results' :
                   /\ tool_results'[i].tool_use_id[1] = turn'
                   /\ \A j \in DOMAIN tool_results' :
                         i < j => tool_results'[i].tool_use_id[2]
                                     < tool_results'[j].tool_use_id[2]
      ]_vars

C30_Witness ==
    /\ pc = "content" /\ Len(tool_results) = 2
    /\ last.op = "_run_tool" /\ last.name = "read_file"
    /\ last.out.val = "--- b ---\n   1 | y"
    /\ <<"ws", "b">> \notin DOMAIN BaseFiles
    /\ tool_results[1].tool_use_id = <<turn, 1>>
    /\ tool_results[2] = [type |-> "tool_result", tool_use_id |-> <<turn, 2>>,
                          content |-> last.out.val]


\* C31 as stated: when a model response contains no tool-call request the
\* loop goes to Done at once: no further model request is sent, no tool is
\* executed, and the text returned by run is that response's text.
C31_DoneWithResponseText ==
    [][/\ pc # "returned"
       /\ (pc = "content" /\ pc' # "content" /\ nblk' = nblk /\ tool_results = <<>>)
          => /\ pc' = "returned"
             /\ UNCHANGED <<turn, ncalls, fsVars, files_changed>>
             /\ response'.text = IF turn_text # <<>> THEN turn_text[Len(turn_text)]
                                 ELSE ""
      ]_vars

\* C31 as the code has it: when a model response contains no tool-call
\* request the loop ends at once, with no further model request and no tool
\* executed; the text returned is the last text block of that response when it
\* has one, and otherwise the text of the last earlier turn that had one.
C31_DoneWithLastText ==
    [][/\ pc # "returned"
       /\ (pc = "content" /\ pc' # "content" /\ nblk' = nblk /\ tool_results = <<>>)
          => /\ pc' = "returned"
             /\ UNCHANGED <<turn, ncalls, fsVars, files_changed>>
             /\ response'.text = IF turn_text # <<>> THEN turn_text[Len(turn_text)]
                                 ELSE said
      ]_vars

C31_Witness ==
    /\ pc = "returned" /\ turn = 2 /\ tool_results = <<>>
    /\ turn_text = <<>>
    /\ response.text = "hi" /\ said = "hi"


\* C32: the loop's message sequence is append-only and chronological: it
\* starts as the prior history in order followed by the new user message
\* last; each turn appends the model's own turn and then, if and only if that
\* turn requested tools, one message with the tool results; no earlier
\* message is ever changed or removed, and the caller's history list is not
\* mutated.
C32_MessagesAppendOnly ==
    [][/\ conversation'.history = conversation.history
       /\ Len(conversation'.messages) >= Len(conversation.messages)
       /\ SubSeq(conversation'.messages, 1, Len(conversation.messages))
             = conversation.messages
       /\ Len(conversation.messages) > Len(conversation.history)
       /\ \A i \in DOMAIN conversation.history :
             /\ conversation.messages[i].role = conversation.history[i].role
             /\ conversation.messages[i].content = conversation.history[i].content
       /\ conversation.messages[Len(conversation.history) + 1]
             = [role |-> "user", content |-> conversation.message]
       /\ IF pc = "content" /\ pc' # "content" /\ nblk' = nblk
             THEN conversation'.messages
                    = conversation.messages
                      \o <<[role |-> "assistant",
                            content |-> conversation.assistant_content]>>
                      \o (IF nblk > Len(turn_text)
                             THEN <<[role |-> "user", content |-> tool_results]>>
                             ELSE <<>>)
             ELSE conversation'.messages = conversation.messages
      ]_vars

C32_Witness ==
    /\ pc = "returned" /\ turn = 2
    /\ Len(conversation.history) = 2
    /\ Len(conversation.messages) = 6
    /\ conversation.messages[4].role = "assistant"
    /\ Len(conversation.messages[4].content) = 2
    /\ conversation.messages[5].role = "user"
    /\ conversation.messages[5].content[1].type = "tool_result"
    /\ conversation.messages[6] = [role |-> "assistant",
                                   content |-> <<[type |-> "text", text |-> "hi"]>>]


\* both calls have returned "1 replacement" after reading the same text for
\* different substrings
BothEdited ==
    /\ \A i \in {1, 2} : calls[i].pc = "done" /\ calls[i].out.ok
    /\ calls[1].text = calls[2].text
    /\ calls[1].old_string # calls[2].old_string

\* C33: the File Store gives no isolation between concurrent invocations:
\* with two concurrent edit_file calls on the same path that replace
\* different substrings, a state is reachable in which both calls report "1
\* replacement" but the final file content contains only one of the two
\* edits (a lost update).  Whenever both calls read the file before either
\* wrote it, this is the only outcome: the file is left with the text of the
\* call that wrote last, which lacks the other edit.
C33_LostUpdate ==
    (calls # <<>> /\ BothEdited)
       => /\ \A i \in {1, 2} :
                calls[i].out.val = "Edited a: 1 replacement"
          /\ \E i \in {1, 2} :
                /\ files[<<"ws", "a">>]
                      = ReplaceFirst(calls[i].text, calls[i].old_string,
                                     calls[i].new_string)
                /\ ~Contains(files[<<"ws", "a">>], calls[3 - i].new_string)
                /\ Contains(files[<<"ws", "a">>], calls[3 - i].old_string)

C33_Witness ==
    /\ calls # <<>> /\ BothEdited
    /\ calls[1].text = "ab"
    /\ calls[1].old_string = "a" /\ calls[2].old_string = "b"
    /\ files[<<"ws", "a">>] = "Ab"


RECURSIVE TotalLength(_)
\* the total length of the contents added
TotalLength(added) ==
    IF added = <<>> THEN 0 ELSE Len(Head(added).content) + TotalLength(Tail(added))

\* the part was cut: it is not the content of its skill
WasTruncated(part) == part.content # last.args.skills[part.skill].content

\* C34: get_skills_context respects its character budget of 4 *
\* max_tokens_approx: the remaining budget is strictly positive whenever a
\* skill is added, at most one skill body is truncated and it is the last one
\* included, skills with empty content are skipped without consuming budget,
\* and the total length of included skill bodies never exceeds the budget
\* plus the length of the one truncation marker.
C34_BudgetRespected ==
    last.op = "get_skills_context"
       => LET added == last.added
              budget == 4 * last.args.max_tokens_approx
          IN  /\ \A k \in DOMAIN added :
                    /\ added[k].budget > 0
                    /\ added[k].budget
                          = budget - TotalLength(SubSeq(added, 1, k - 1))
                    /\ last.args.skills[added[k].skill].content # ""
                    /\ WasTruncated(added[k])
                          => /\ k = Len(added)
                             /\ added[k].content
                                   = SubSeq(last.args.skills[added[k].skill].content,
                                            1, added[k].budget)
                                     \o TruncationMarker
                    /\ \A j \in DOMAIN added : j < k => added[j].skill < added[k].skill
              /\ TotalLength(added) <= budget + Len(TruncationMarker)
              /\ \A i \in DOMAIN last.args.skills :
                    (/\ last.args.skills[i].content # ""
                     /\ \A k \in DOMAIN added : added[k].skill # i)
                       => /\ added # <<>>
                          /\ added[Len(added)].skill < i
                          /\ TotalLength(added) >= budget

C34_Witness ==
    /\ last.op = "get_skills_context"
    /\ last.args.max_tokens_approx = 2
    /\ Len(last.added) = 2
    /\ last.added[1].skill = 2 /\ last.added[1].content = "abc"
    /\ last.added[2].content = "abcde" \o TruncationMarker
    /\ last.out.val = "## Skill: s2\nabc\n\n---\n\n## Skill: s3\nabcde\n...(truncated)"


AllReturned == \A i \in DOMAIN calls : calls[i].pc = "done" /\ "code" \in DOMAIN calls[i]

\* C35: under any interleaving of execute_python_code calls running in
\* different threads of the same process, each call's result contains only
\* the output printed by its own code, and once all calls have returned
\* sys.stdout and sys.stderr are bound to what they were bound to before the
\* first call.
C35_CallsIsolated ==
    /\ \A i \in DOMAIN calls :
          (calls[i].pc = "done" /\ "code" \in DOMAIN calls[i])
             => /\ calls[i].stdout_capture \in {"", calls[i].code.stdout}
                /\ calls[i].stderr_capture \in {"", calls[i].code.stderr}
    /\ (calls # <<>> /\ AllReturned) => sys = StdStreams

\* each call's result holds what its own code printed, whatever the other does
C35_OwnOutputOnly ==
    \A i \in DOMAIN calls :
       (calls[i].pc = "done" /\ "code" \in DOMAIN calls[i])
          => /\ calls[i].stdout_capture \in {"", calls[i].code.stdout}
             /\ calls[i].stderr_capture \in {"", calls[i].code.stderr}

\* the streams are back once both calls have returned
C35_StreamsRestored == (calls # <<>> /\ AllReturned) => sys = StdStreams


\* the requests whose engine.run was called
Handed == {i \in DOMAIN calls : "history" \in DOMAIN calls[i]}

\* C36: for every chat request, through /api/chat or /api/chat/stream, and
\* under any interleaving with other chat or clear-session requests on the
\* same session id, the history handed to engine.run is exactly the session's
\* messages that preceded this request's user message: it never contains the
\* request's own user message and never omits an earlier message.
C36_HistoryIsWhatPreceded ==
    \A i \in Handed : calls[i].history = calls[i].before

\* the same of the requests of /api/chat alone
C36_ChatHistoryPreceded ==
    \A i \in Handed : calls[i].op = "chat" => calls[i].history = calls[i].before

\* a request of /api/chat/stream is handed its own user message
C36_OwnMessageHanded ==
    \E i \in Handed :
       /\ calls[i].op = "chat_stream"
       /\ \E k \in DOMAIN calls[i].history :
             calls[i].history[k] = [role |-> "user", content |-> calls[i].message]


\* user, assistant, user, assistant, ... starting with user
Alternates(history) ==
    \A k \in DOMAIN history :
       history[k].role = IF k % 2 = 1 THEN "user" ELSE "assistant"

\* C37: in a session served only by sequential /api/chat requests,
\* the stored history strictly alternates user, assistant, user, assistant,
\* ... starting with user after every request, including after a request
\* whose invocation failed.
C37_HistoryAlternates ==
    \A sid \in DOMAIN sessions : Alternates(sessions[sid])

\* What holds of C37: in a session served only by sequential /api/chat requests,
\* every request appends exactly one user message, followed by one assistant
\* message exactly when the invocation succeeded, and nothing else changes;
\* the history alternates after the request if it alternated and ended with an
\* assistant message (or was empty) before it and the invocation succeeded,
\* and holds two user messages in a row after the next request otherwise.
C37_OneUserAtMostOneAssistant ==
    [][last'.op = "chat" /\ ncalls' = ncalls + 1
          => LET sid == last'.sid
                 old == Stored(sessions, sid)
                 new == sessions'[sid]
                 user == [role |-> "user", content |-> last'.args.message]
                 complete == old = <<>> \/ old[Len(old)].role = "assistant"
             IN  /\ sid \in DOMAIN sessions'
                 /\ \A k \in DOMAIN sessions : k # sid => sessions'[k] = sessions[k]
                 /\ DOMAIN sessions' = DOMAIN sessions \cup {sid}
                 /\ IF last'.status = 200
                       THEN new = old \o <<user, [role |-> "assistant",
                                                  content |-> last'.out.val.response]>>
                       ELSE new = Append(old, user)
                 /\ Alternates(new) <=> (Alternates(old) /\ complete)]_vars

C37_Witness ==
    /\ last.op = "chat" /\ last.status = 200 /\ last.sid = "s1"
    /\ "s1" \in DOMAIN sessions
    /\ sessions["s1"] = <<[role |-> "user", content |-> "hi"],
                          [role |-> "user", content |-> "yo"],
                          [role |-> "assistant", content |-> "ok"]>>


\* the step is the dispatch of a tool_use block
IsToolStep == last'.op = "_run_tool" /\ nblk' = nblk + 1

\* the file a write_file request names, when it lies in the workspace
Target(args) == _resolve(args["path"], Root)

\* C38: every tool call the model requests in any turn, including the turn
\* that hits the ceiling of max_turns turns, is executed exactly once before
\* run returns, so its file-system effects and files_changed entries are
\* present in the returned state even when its result is never sent back to
\* the model: a write_file request inside the workspace puts its content into
\* the file and one entry at the end of files_changed in the step that
\* dispatches it, whatever the turn, a request that fails adds nothing,
\* nothing but the dispatch of a request touches the files or files_changed,
\* and the response carries files_changed as it is at the end.
C38_RequestedCallsExecuted ==
    /\ [][IsToolStep
            => /\ ncalls' = ncalls + (IF last'.name \in ToolNames THEN 1 ELSE 0)
               /\ IF last'.name = "write_file" /\ DOMAIN last'.args = {"path", "content"}
                     /\ Target(last'.args).ok
                     THEN /\ files' = [p \in DOMAIN files \cup {Target(last'.args).val} |->
                                         IF p = Target(last'.args).val
                                            THEN last'.args["content"] ELSE files[p]]
                          /\ files_changed' = Append(files_changed, last'.args["path"])
                          /\ tool_results' # tool_results
                     ELSE /\ files' = files
                          /\ files_changed' = files_changed]_vars
    /\ [][~IsToolStep => UNCHANGED <<files, dirs, files_changed>>]_vars
    /\ [](pc = "returned" => response.files_changed = files_changed)

C38_Witness ==
    /\ pc = "returned"
    /\ turn = max_turns
    /\ Len(tool_results) = 2
    /\ tool_results[1].tool_use_id = <<max_turns, 1>>
    /\ tool_results[1].content = "Unknown tool"
    /\ tool_results[2].tool_use_id = <<max_turns, 2>>
    /\ tool_results[2].content # "Unknown tool"
    /\ wlog = <<[path |-> "b", ok |-> TRUE]>>
    /\ <<"ws", "b">> \in DOMAIN files
    /\ files[<<"ws", "b">>] = "y"
    /\ response.files_changed = <<"b">>


\* the block holds a full HTML document
IsDocument(block) == Contains(block.code, "<!DOCTYPE") \/ Contains(block.code, "<html")

\* "sketch.html", or 1 to 40 characters of [a-z0-9-] followed by ".html"
IsSafeName(name) ==
    \/ name = "sketch.html"
    \/ /\ Len(name) - 5 \in 1..40
       /\ SubSeq(name, Len(name) - 4, Len(name)) = ".html"
       /\ \A k \in 1..(Len(name) - 5) :
             IndexIn(LowerCase \o Digits \o "-", Char(name, k), 1) # 0

\* C39: _auto_save_html writes nothing and returns files_changed unchanged
\* whenever the engine reported at least one changed file; otherwise it
\* considers only the first code block that contains a full HTML document,
\* writes at most one file, and the file name it uses is "sketch.html" or 1
\* to 40 characters from [a-z0-9-] followed by ".html", so it contains no path
\* separator and the file lands directly in the workspace root.
C39_AutoSaveOneSafeFile ==
    last.op = "_auto_save_html"
       => LET blocks == last.args.code_blocks
              documents == {i \in DOMAIN blocks : IsDocument(blocks[i])}
              written == {p \in DOMAIN files :
                            p \notin DOMAIN last.before \/ files[p] # last.before[p]}
          IN  /\ last.args.files_changed # <<>>
                    => files = last.before /\ last.out = last.args.files_changed
              /\ documents = {}
                    => files = last.before /\ last.out = last.args.files_changed
              /\ Cardinality(written) <= 1
              /\ DOMAIN last.before \subseteq DOMAIN files
              /\ \A p \in written :
                    /\ Len(p) = 2 /\ p[1] = "ws"
                    /\ IsSafeName(p[2])
                    /\ ~Contains(p[2], "/")
                    /\ last.out = <<p[2]>>
                    /\ \E i \in documents :
                          /\ \A j \in documents : i <= j
                          /\ files[p] = blocks[i].code
              /\ last.out # last.args.files_changed
                    => /\ Len(last.out) = 1
                       /\ IsSafeName(last.out[1])
                       /\ <<"ws", last.out[1]>> \in DOMAIN files
                       /\ \E i \in documents :
                             /\ \A j \in documents : i <= j
                             /\ files[<<"ws", last.out[1]>>] = blocks[i].code

C39_Witness ==
    /\ last.op = "_auto_save_html"
    /\ last.args.files_changed = <<>>
    /\ Len(last.args.code_blocks) = 2
    /\ last.args.code_blocks[2].code = "<!DOCTYPE html>"
    /\ last.out = <<"0123456789-0123456789-0123456789-012345-.html">>
    /\ <<"ws", "0123456789-0123456789-0123456789-012345-.html">> \in DOMAIN files
    /\ <<"ws", "sketch.html">> \notin DOMAIN files


\* no instance was built for engine_id since the cache was last cleared
ClearedFor(engine_id) ==
    \E c \in DOMAIN built :
       /\ built[c].by = "clear_instances"
       /\ \A j \in DOMAIN built :
             j > c => ~(built[j].by = "get_engine" /\ built[j].id = engine_id
                        /\ built[j].ok)

\* C40: clear_instances() empties the instance cache and leaves the
\* registration table unchanged; the first get_engine(id) after it constructs
\* a fresh instance from the constructor currently registered for id.
C40_ClearThenFresh ==
    /\ [][last'.op = "clear_instances" /\ ncalls' = ncalls + 1
             => _instances' = <<>> /\ _engines' = _engines]_vars
    /\ [][(/\ last'.op = "get_engine" /\ ncalls' = ncalls + 1
           /\ ClassOf(last'.args.engine_id) # ""
           /\ ClearedFor(last'.args.engine_id))
             => LET engine_id == last'.args.engine_id
                IN  /\ built' = Append(built, [by |-> "get_engine", id |-> engine_id,
                                               cls |-> ClassOf(engine_id),
                                               ok |-> last'.out.ok])
                    /\ _engines' = _engines
                    /\ last'.out.ok
                          => /\ last'.out.val.built_by = ClassOf(engine_id)
                             /\ last'.out.val.call = ncalls'
                             /\ \A k \in DOMAIN _instances :
                                   _instances[k] # last'.out.val
                             /\ engine_id \in DOMAIN _instances'
                             /\ _instances'[engine_id] = last'.out.val]_vars

C40_Witness ==
    /\ last.op = "get_engine" /\ last.out.ok
    /\ last.args.engine_id = "claude"
    /\ Len(built) = 3
    /\ built[1] = [by |-> "get_engine", id |-> "claude", cls |-> "ClaudeEngine",
                   ok |-> TRUE]
    /\ built[2].by = "clear_instances"
    /\ built[3] = built[1]
    /\ last.out.val = [built_by |-> "ClaudeEngine", call |-> 4]
    /\ _instances = [k \in {"claude"} |-> last.out.val]
    /\ Len(_engines) = 1

====
